---- MODULE Spec2Model ----
(***************************************************************************)
(* Attack-tree parser and feasibility model of atilm/attack-tree-tool.     *)
(*                                                                         *)
(* The parser (src/att/src/parser/mod.rs) is a character-driven state      *)
(* machine; one action of this module is one iteration of the loop         *)
(* `for c in text.chars()` in one parser state, and EndOfText is the code  *)
(* after the loop.  The characters of the text are drawn one at a time,    *)
(* which explores every text of the bounded input language.                *)
(*                                                                         *)
(* Strings are sequences of one-character strings.  Rc<dyn FeasibleStep>   *)
(* is an address into `nodes` (the heap of nodes built so far, in          *)
(* construction order); Option::None of such a reference is NoNode.        *)
(* Option<u32> is <<>> (None) or <<v>> (Some(v)).                          *)
(***************************************************************************)
EXTENDS Integers, Sequences, FiniteSets, TLC

VARIABLES
    pc,              \* where parse() stands: "start", "loop", "done"; in SpecModel,
                     \*   "model" while a tree is built, "asked" after the call and
                     \*   "again" after its repetition; in SpecAssess, "assess",
                     \*   "built" and "asked"
    parser,          \* the fields of the AttackTreeParser
    nodes,           \* the nodes constructed so far (address = index)
    OBJECT_COUNTER,  \* the process-wide id counter, as <<multiples of 2^16, rest>>
    result,          \* what parse() ended with ("none" while it runs)
    root,            \* the node parse() returned (NoNode if none)
    lead,            \* of the text read: leading spaces of its current line so far, -1 past them
    line,            \* of the text read: the current node line, its leading spaces and the
                     \*   criterion names it has given a value so far; the character
                     \*   read last ("" before the first and at the end of the text)
                     \*   and the number of lines so far that hold more than spaces
    indentOf,        \* of the text read: per node, the leading spaces of its line
    complete,        \* of the text read: every leaf line so far gave every criterion a value
    answer,          \* what the last call of feasibility() or feasibility_value() gave
                     \*   (in SpecAgain: the second call of parse() and what the first gave)
    args             \* in SpecAssess, the arguments of the calls on assessments

vars == <<pc, parser, nodes, OBJECT_COUNTER, result, root, lead, line, indentOf,
          complete, answer, args>>

-----------------------------------------------------------------------------
(* Bounds of the explored inputs *)

\* Spec: lines with the full leaf syntax
MaxNodes == 2
MaxIndent == 1
\* SpecShape: plain lines
MaxShapeNodes == 4
MaxShapeIndent == 2
\* SpecTree: plain lines, deeper trees
MaxTreeNodes == 5
MaxTreeIndent == 3
\* SpecModel: trees built through the model's constructors and add_child
MaxModelNodes == 4

NoNode == 0
None == <<>>
Some(v) == <<v>>

\* The criteria schema handed to parse(): two criteria, as in the tests.
definition == << <<"E">>, <<"K">> >>

-----------------------------------------------------------------------------
(* Strings *)

IsWhitespace(c) == c \in {" ", "\n"}

Digits == <<"0", "1", "2", "3", "4", "5", "6", "7", "8", "9">>

IsDigit(c) == \E i \in 1..10 : Digits[i] = c

DigitValue(c) == (CHOOSE i \in 1..10 : Digits[i] = c) - 1

RECURSIVE TrimStart(_)
TrimStart(s) ==
    IF s # <<>> /\ IsWhitespace(Head(s)) THEN TrimStart(Tail(s)) ELSE s

RECURSIVE TrimEnd(_)
TrimEnd(s) ==
    IF s # <<>> /\ IsWhitespace(s[Len(s)])
    THEN TrimEnd(SubSeq(s, 1, Len(s) - 1))
    ELSE s

\* str::trim
Trim(s) == TrimEnd(TrimStart(s))

RECURSIVE DecimalValue(_)
DecimalValue(s) ==
    IF s = <<>> THEN 0
    ELSE 10 * DecimalValue(SubSeq(s, 1, Len(s) - 1)) + DigitValue(s[Len(s)])

\* str::parse::<u32>: an optional '+', then one or more decimal digits and
\* nothing else.  Err is None here, Ok(v) is Some(v).  (The values of the
\* explored texts have at most three characters, so the u32 range check of
\* the library never rejects.)
ParseU32(s) ==
    LET digits == IF s # <<>> /\ Head(s) = "+" THEN Tail(s) ELSE s
    IN  IF digits # <<>> /\ \A i \in 1..Len(digits) : IsDigit(digits[i])
        THEN Some(DecimalValue(digits))
        ELSE None

IsPrefix(s, t) == Len(s) <= Len(t) /\ SubSeq(t, 1, Len(s)) = s

-----------------------------------------------------------------------------
(* The model crate: src/src/model/mod.rs *)

\* Numbers of 32 bits and more are held as <<high, low>>, standing for
\* high * 2^16 + low with low < 2^16: a u32 has high < 2^16 as well, the
\* AtomicUsize may have more.
Half == 256 * 256

\* An increment that is lost (against C39).
fetch_add_Lost(counter) == counter

\* fetch_add(1, SeqCst): the counter after the call
fetch_add(counter) ==
    IF counter[2] + 1 = Half THEN <<counter[1] + 1, 0>>
    ELSE <<counter[1], counter[2] + 1>>

\* generate_id: the value of the counter before the increment, `as u32`: its
\* low 32 bits.
generate_id(counter) == <<counter[1] % Half, counter[2]>>

\* A constructor that takes any vector (against C22).
FeasibilityAssessment_new_Unchecked(schema, assessments) ==
    Some([definition |-> schema, assessments |-> assessments])

\* FeasibilityAssessment::new: Err (None) on a length mismatch.
FeasibilityAssessment_new(schema, assessments) ==
    IF Len(assessments) # Len(schema)
    THEN None
    ELSE Some([definition |-> schema, assessments |-> assessments])

\* AndNode::new / OrNode::new: id from the generator, no children.
InnerNode_new(kind, title, parent, id) ==
    [kind |-> kind, id |-> id, description |-> title, parent |-> parent,
     children |-> <<>>, criteria |-> None]

Leaf_new(title, parent, criteria, id) ==
    [kind |-> "Leaf", id |-> id, description |-> title, parent |-> parent,
     children |-> <<>>, criteria |-> criteria]

\* Result<FeasibilityAssessment, TreeError>; a panic of the call is Panicked.
Ok(assessment) == <<"Ok", assessment>>
Err == <<"Err">>
Panicked == <<"Panic">>
IsOk(r) == r[1] = "Ok"

unwrap_or(option, default) == IF option = None THEN default ELSE option[1]

Max(a, b) == IF a >= b THEN a ELSE b

RECURSIVE SumSeq(_)
SumSeq(s) == IF s = <<>> THEN 0 ELSE Head(s) + SumSeq(Tail(s))

\* FeasibilityAssessment::sum
sum(assessment) ==
    SumSeq([i \in 1..Len(assessment.assessments) |->
                unwrap_or(assessment.assessments[i], 0)])

\* A combination that keeps the left assessment (against C15).
component_wise_left(self, other) ==
    IF Len(self.assessments) # Len(other.assessments)
    THEN None
    ELSE FeasibilityAssessment_new(self.definition, self.assessments)

\* A combination without the comparison of the lengths: zip stops at the
\* shorter vector, and only the constructor looks at the length (against C23).
component_wise_max_Unchecked(self, other) ==
    LET shorter == IF Len(self.assessments) <= Len(other.assessments)
                   THEN Len(self.assessments) ELSE Len(other.assessments)
        maxima == [i \in 1..shorter |->
                      Some(Max(unwrap_or(self.assessments[i], 0),
                               unwrap_or(other.assessments[i], 0)))]
    IN  FeasibilityAssessment_new(self.definition, maxima)

\* A combination that leaves a position absent where both inputs are
\* absent (against C24).
component_wise_max_Absent(self, other) ==
    IF Len(self.assessments) # Len(other.assessments)
    THEN None
    ELSE LET maxima == [i \in 1..Len(self.assessments) |->
                           IF self.assessments[i] = None /\ other.assessments[i] = None
                           THEN None
                           ELSE Some(Max(unwrap_or(self.assessments[i], 0),
                                         unwrap_or(other.assessments[i], 0)))]
         IN  FeasibilityAssessment_new(self.definition, maxima)

\* FeasibilityAssessment::component_wise_max, None for the Err
component_wise_max(self, other) ==
    IF Len(self.assessments) # Len(other.assessments)
    THEN None
    ELSE LET maxima == [i \in 1..Len(self.assessments) |->
                           Some(Max(unwrap_or(self.assessments[i], 0),
                                    unwrap_or(other.assessments[i], 0)))]
         IN  FeasibilityAssessment_new(self.definition, maxima)

\* A choice of the first element, whatever its key (against C13).
first_of(results) == results[1]

\* A choice of the last of the elements with the least key (against C14).
last_min_by_key_sum(results) ==
    LET key(i) == sum(results[i][2])
        last == CHOOSE i \in 1..Len(results) :
                    /\ \A j \in 1..Len(results) : key(i) <= key(j)
                    /\ \A j \in (i + 1)..Len(results) : key(j) > key(i)
    IN  results[last]

\* Iterator::min_by_key(|f| f.sum()): the first of the elements with the
\* least key.
min_by_key_sum(results) ==
    LET key(i) == sum(results[i][2])
        first == CHOOSE i \in 1..Len(results) :
                    /\ \A j \in 1..Len(results) : key(i) <= key(j)
                    /\ \A j \in 1..(i - 1) : key(j) > key(i)
    IN  results[first]

\* Iterator::reduce(|a, b| a.component_wise_max(&b).unwrap()) over the Ok
\* results, from the left
RECURSIVE reduce_max(_, _)
reduce_max(acc, rest) ==
    IF rest = <<>> THEN Ok(acc)
    ELSE LET m == component_wise_max(acc, Head(rest)[2])
         IN  IF m = None THEN Panicked ELSE reduce_max(m[1], Tail(rest))

\* An OrNode that does not look whether it has children (against C16).
OrNode_feasibility_Unchecked(results) ==
    IF results = <<>> THEN Panicked
    ELSE IF \E i \in 1..Len(results) : ~IsOk(results[i]) THEN Panicked
    ELSE min_by_key_sum(results)

\* OrNode::feasibility, given the children's results in child order
OrNode_feasibility(results) ==
    IF results = <<>> THEN Err
    ELSE IF \E i \in 1..Len(results) : ~IsOk(results[i]) THEN Panicked
    ELSE min_by_key_sum(results)

\* AndNode::feasibility, given the children's results in child order
AndNode_feasibility(results) ==
    IF results = <<>> THEN Err
    ELSE IF \E i \in 1..Len(results) : results[i] = Panicked THEN Panicked
    ELSE LET oks == SelectSeq(results, IsOk)
         IN  IF oks = <<>> THEN Panicked
             ELSE reduce_max(Head(oks)[2], Tail(oks))

\* Leaf::feasibility
Leaf_feasibility(criteria) ==
    LET r == FeasibilityAssessment_new(criteria.definition, criteria.assessments)
    IN  IF r = None THEN Err ELSE Ok(r[1])

\* FeasibleStep::feasibility of the node at address n of a heap
RECURSIVE feasibility(_, _)
feasibility(heap, n) ==
    LET kids == heap[n].children
        results == [i \in 1..Len(kids) |-> feasibility(heap, kids[i])]
    IN  CASE heap[n].kind = "Leaf" -> Leaf_feasibility(heap[n].criteria)
          [] heap[n].kind = "OrNode" -> OrNode_feasibility(results)
          [] heap[n].kind = "AndNode" -> AndNode_feasibility(results)

\* FeasibleStep::feasibility_value
feasibility_value(heap, n) ==
    LET f == feasibility(heap, n)
    IN  IF f = Panicked THEN Panicked
        ELSE IF IsOk(f) THEN sum(f[2]) ELSE 0

-----------------------------------------------------------------------------
(* The model crate: FeasibleStep::render *)

\* Display of an integer below 2^31: its decimal digits
RECURSIVE Display(_)
Display(n) ==
    IF n < 10 THEN <<Digits[n + 1]>>
    ELSE Display(n \div 10) \o <<Digits[(n % 10) + 1]>>

\* [String]::join
RECURSIVE join(_, _)
join(strings, separator) ==
    IF strings = <<>> THEN <<>>
    ELSE IF Len(strings) = 1 THEN strings[1]
    ELSE strings[1] \o separator \o join(Tail(strings), separator)

\* The criteria of build_criteria have their name as their id.
criterion_id(c) == c

\* The second argument of render in the three implementations
shape_str(kind) ==
    CASE kind = "AndNode" -> <<" ", "s", "h", "a", "p", "e", "=", "t", "r", "a", "p", "e", "z", "i", "u", "m">>
      [] kind = "OrNode" -> <<" ", "s", "h", "a", "p", "e", "=", "i", "n", "v", "t", "r", "a", "p", "e", "z", "i", "u", "m">>
      [] kind = "Leaf" -> <<>>

\* The two characters that the raw string literal has between its fields
BackslashN == <<"\\", "n">>

\* render(step, shape_str): the label of the node at address n, or the panic
\* of its feasibility().  zip ends with the shorter of schema and vector.
render(heap, n) ==
    LET assessment == feasibility(heap, n)
    IN  IF assessment = Panicked THEN Panicked
        ELSE IF ~IsOk(assessment)
        THEN <<"l", "a", "b", "e", "l", "=", "\"">> \o heap[n].description
        ELSE LET schema == assessment[2].definition
                 vector == assessment[2].assessments
                 zipped == IF Len(schema) <= Len(vector) THEN Len(schema) ELSE Len(vector)
                 assessment_strings ==
                     [i \in 1..zipped |->
                         criterion_id(schema[i]) \o <<"=">>
                             \o Display(unwrap_or(vector[i], 0))]
             IN  <<"l", "a", "b", "e", "l", "=", "\"">> \o heap[n].description
                     \o BackslashN \o Display(feasibility_value(heap, n))
                     \o BackslashN \o join(assessment_strings, <<",", " ">>)
                     \o <<"\"">> \o shape_str(heap[n].kind)

-----------------------------------------------------------------------------
(* The parser: src/att/src/parser/mod.rs *)

\* AttackTreeParser::new
AttackTreeParser_new ==
    [state |-> "DeterminingIndentationLevel",
     title |-> <<>>,
     assessment_value |-> <<>>,
     assessment_title |-> <<>>,
     parsed_assessments |-> <<>>,
     current_node_type |-> "Unknown",
     indentation_counter |-> 0,
     previous_indentation |-> 0,
     current_indentation |-> 0,
     current_node |-> NoNode,
     last_added_node |-> NoNode]

\* What a handler works on: the parser, the heap, the id counter, and how the
\* call left parse() early ("none", "SyntaxError" by `?`, "Panic" by unwrap
\* or panic!).
World == [parser |-> parser, nodes |-> nodes, counter |-> OBJECT_COUNTER,
          exit |-> "none"]

\* The statements after a `?`, an unwrap or a panic! run only if it passed.
Then(w, rest(_)) == IF w.exit # "none" THEN w ELSE rest(w)

\* A set_state that leaves the indentation counter as it is (against C31).
set_state_KeepCounter(w, state) ==
    LET q == [w EXCEPT !.parser.state = state]
    IN  CASE state = "InTitle" -> [q EXCEPT !.parser.title = <<>>]
          [] state = "InAssessmentName" ->
                [q EXCEPT !.parser.assessment_title = <<>>]
          [] state = "InAssessmentValue" ->
                [q EXCEPT !.parser.assessment_value = <<>>]
          [] OTHER -> q

set_state(w, state) ==
    LET q == [w EXCEPT !.parser.state = state]
    IN  CASE state = "DeterminingIndentationLevel" ->
                [q EXCEPT !.parser.indentation_counter = 0]
          [] state = "InTitle" -> [q EXCEPT !.parser.title = <<>>]
          [] state = "InAssessmentName" ->
                [q EXCEPT !.parser.assessment_title = <<>>]
          [] state = "InAssessmentValue" ->
                [q EXCEPT !.parser.assessment_value = <<>>]
          [] OTHER -> q

\* An add_child that a Leaf ignores (against C33).
add_child_Ignored(w, parent, child) ==
    IF w.nodes[parent].kind = "Leaf"
    THEN w
    ELSE [w EXCEPT !.nodes[parent].children = Append(@, child)]

\* An add_child that puts the child in front (against C25).
add_child_Prepend(w, parent, child) ==
    IF w.nodes[parent].kind = "Leaf"
    THEN [w EXCEPT !.exit = "Panic"]
    ELSE [w EXCEPT !.nodes[parent].children = <<child>> \o @]

\* FeasibleStep::add_child: AndNode and OrNode push, Leaf panics.
add_child(w, parent, child) ==
    IF w.nodes[parent].kind = "Leaf"
    THEN [w EXCEPT !.exit = "Panic"]
    ELSE [w EXCEPT !.nodes[parent].children = Append(@, child)]

\* get_parent().unwrap() of the current node, as the new current node.
Ascend(w) ==
    IF w.nodes[w.parser.current_node].parent = NoNode
    THEN [w EXCEPT !.exit = "Panic"]
    ELSE [w EXCEPT !.parser.current_node = w.nodes[@].parent]

\* A parser that never steps down to the last added node (against C2).
Descend_Stay(w) == w

Descend(w) == [w EXCEPT !.parser.current_node = w.parser.last_added_node]

\* A placement that attaches the node and does not remember it (against C36).
Place_Forgotten(w, node) == add_child(w, w.parser.current_node, node)

\* A placement that remembers the node and does not attach it (against C32).
Place_Detached(w, node) == [w EXCEPT !.parser.last_added_node = node]

Place(w, node) ==
    LET Attach(v) == add_child(v, v.parser.current_node, node)
        Remember(v) == [v EXCEPT !.parser.last_added_node = node]
    IN  Then(Then(w, Attach), Remember)

\* A parser that also steps down on equal indentation (against C3).
add_node_DescendOnEqual(w, node) ==
    IF w.parser.current_node = NoNode
    THEN [w EXCEPT !.parser.current_node = node,
                   !.parser.last_added_node = node]
    ELSE LET down == IF w.parser.current_indentation >= w.parser.previous_indentation
                     THEN Descend(w) ELSE w
             up == IF down.parser.current_indentation < down.parser.previous_indentation
                   THEN Ascend(down) ELSE down
         IN  IF up.exit # "none" THEN up ELSE Place(up, node)

add_node(w, node) ==
    IF w.parser.current_node = NoNode
    THEN [w EXCEPT !.parser.current_node = node,
                   !.parser.last_added_node = node]
    ELSE LET down == IF w.parser.current_indentation > w.parser.previous_indentation
                     THEN Descend(w) ELSE w
             up == IF down.parser.current_indentation < down.parser.previous_indentation
                   THEN Ascend(down) ELSE down
         IN  IF up.exit # "none" THEN up ELSE Place(up, node)

\* The node is constructed (its id drawn, its parent read from current_node)
\* before add_node runs: it is the argument of the call.
Construct(w, node) ==
    [w EXCEPT !.nodes = Append(@, node), !.counter = fetch_add(@)]

NewInner(w, kind) ==
    LET typed == [w EXCEPT !.parser.current_node_type = kind]
        built == Construct(typed, InnerNode_new(kind, typed.parser.title,
                              typed.parser.current_node, generate_id(typed.counter)))
    IN  add_node(built, Len(built.nodes))

\* A projection that fills a missing criterion with 0 (against C9).
Project_Filled(schema, assessments) ==
    [i \in 1..Len(schema) |->
        IF schema[i] \in DOMAIN assessments
        THEN Some(assessments[schema[i]]) ELSE Some(0)]

\* The feasibility vector of a new leaf: parsed_assessments projected on the
\* schema's criterion names, in schema order.
Project(schema, assessments) ==
    [i \in 1..Len(schema) |->
        IF schema[i] \in DOMAIN assessments
        THEN Some(assessments[schema[i]]) ELSE None]

build_leaf(w, schema) ==
    LET assessment_values == Project(schema, w.parser.parsed_assessments)
        criteria == FeasibilityAssessment_new(schema, assessment_values)
    IN  IF criteria = None
        THEN [w EXCEPT !.exit = "Panic"]
        ELSE Construct(w, Leaf_new(w.parser.title, w.parser.current_node,
                                   criteria[1], generate_id(w.counter)))

NewLeaf(w) ==
    LET Add(v) == add_node(v, Len(v.nodes))
    IN  Then(build_leaf(w, definition), Add)

Insert(map, key, value) ==
    [k \in (DOMAIN map) \cup {key} |-> IF k = key THEN value ELSE map[k]]

\* A commit that takes a malformed value for 0 (against C7).
commit_assessment_Lenient(w) ==
    LET value == ParseU32(w.parser.assessment_value)
    IN  [w EXCEPT !.parser.parsed_assessments =
                      Insert(@, Trim(w.parser.assessment_title),
                             IF value = None THEN 0 ELSE value[1]),
                  !.parser.assessment_value = <<>>,
                  !.parser.assessment_title = <<>>]

commit_assessment(w) ==
    LET value == ParseU32(w.parser.assessment_value)
    IN  IF value = None
        THEN [w EXCEPT !.exit = "SyntaxError"]
        ELSE [w EXCEPT !.parser.parsed_assessments =
                           Insert(@, Trim(w.parser.assessment_title), value[1]),
                       !.parser.assessment_value = <<>>,
                       !.parser.assessment_title = <<>>]

(* One iteration of the loop over the characters, by parser state. *)

on_InTitle(w, c) ==
    IF c = ";"
    THEN set_state(w, "DeterminingNodeType")
    ELSE [w EXCEPT !.parser.title = Append(@, c)]

on_DeterminingNodeType(w, c) ==
    LET Skip(v) == set_state(v, "SkipToLineEnd")
    IN  CASE c = "&" -> Then(NewInner(w, "AndNode"), Skip)
          [] c = "|" -> Then(NewInner(w, "OrNode"), Skip)
          [] c \notin {"&", "|", " "} ->
                LET named == set_state([w EXCEPT !.parser.current_node_type = "Leaf"],
                                       "InAssessmentName")
                IN  [named EXCEPT !.parser.assessment_title = Append(@, c)]
          [] OTHER -> w

\* A parser that leaves SkipToLineEnd on any character (against C30).
on_SkipToLineEnd_Eager(w, c) == set_state(w, "DeterminingIndentationLevel")

on_SkipToLineEnd(w, c) ==
    IF c = "\n" THEN set_state(w, "DeterminingIndentationLevel") ELSE w

\* A parser for which an empty line is a line at indentation 0 (against C11).
on_DeterminingIndentationLevel_BlankMeasured(w, c) ==
    CASE c = " " -> [w EXCEPT !.parser.indentation_counter = @ + 1]
      [] c = "\n" ->
            set_state([w EXCEPT
                    !.parser.previous_indentation = w.parser.current_indentation,
                    !.parser.current_indentation = w.parser.indentation_counter],
                "DeterminingIndentationLevel")
      [] OTHER ->
            LET measured == [w EXCEPT
                    !.parser.previous_indentation = w.parser.current_indentation,
                    !.parser.current_indentation = w.parser.indentation_counter]
                titled == set_state(measured, "InTitle")
            IN  [titled EXCEPT !.parser.title = Append(@, c)]

on_DeterminingIndentationLevel(w, c) ==
    CASE c = " " -> [w EXCEPT !.parser.indentation_counter = @ + 1]
      [] c = "\n" -> set_state(w, "DeterminingIndentationLevel")
      [] OTHER ->
            LET measured == [w EXCEPT
                    !.parser.previous_indentation = w.parser.current_indentation,
                    !.parser.current_indentation = w.parser.indentation_counter]
                titled == set_state(measured, "InTitle")
            IN  [titled EXCEPT !.parser.title = Append(@, c)]

on_InAssessmentName(w, c) ==
    IF c = "="
    THEN set_state(w, "InAssessmentValue")
    ELSE [w EXCEPT !.parser.assessment_title = Append(@, c)]

on_InAssessmentValue(w, c) ==
    LET ToName(v) == set_state(v, "InAssessmentName")
        ToIndent(v) == set_state(v, "DeterminingIndentationLevel")
    IN  CASE c = "," -> Then(commit_assessment(w), ToName)
          [] c = "\n" -> Then(Then(commit_assessment(w), NewLeaf), ToIndent)
          [] OTHER -> [w EXCEPT !.parser.assessment_value = Append(@, c)]

\* The stored parent chain of a node, followed to a node without parent.
RECURSIVE TopOf(_, _)
TopOf(heap, n) ==
    IF heap[n].parent = NoNode THEN n ELSE TopOf(heap, heap[n].parent)

\* An end of parse() that forgets the leaf at the end of the file (against C8).
on_EndOfText_NoFlush(w) ==
    IF w.parser.current_node = NoNode
    THEN [w EXCEPT !.exit = "Panic"]
    ELSE [w EXCEPT !.parser.current_node = TopOf(w.nodes, @), !.exit = "Ok"]

\* An end of parse() that returns the current node as it is (against C12).
on_EndOfText_NoWalk(w) ==
    LET flushed == IF w.parser.state = "InAssessmentValue"
                   THEN Then(commit_assessment(w), NewLeaf)
                   ELSE w
        Resolve(v) ==
            IF v.parser.current_node = NoNode
            THEN [v EXCEPT !.exit = "Panic"]
            ELSE [v EXCEPT !.exit = "Ok"]
    IN  Then(flushed, Resolve)

\* parse() after the loop: the leaf at the end of the file, the walk to the
\* root, and the unwrap of current_node.
on_EndOfText(w) ==
    LET flushed == IF w.parser.state = "InAssessmentValue"
                   THEN Then(commit_assessment(w), NewLeaf)
                   ELSE w
        Resolve(v) ==
            IF v.parser.current_node = NoNode
            THEN [v EXCEPT !.exit = "Panic"]
            ELSE [v EXCEPT !.parser.current_node = TopOf(v.nodes, @), !.exit = "Ok"]
    IN  Then(flushed, Resolve)

-----------------------------------------------------------------------------
(* The input languages explored *)

Chars == {" ", "\n", ";", "&", "|", "=", ",", "1", "a", "E", "K"}

\* Spec: titles, criterion names and values are drawn from these.  The name
\* that is not in the schema occurs on the first node line only.
Titles == { <<"a">> }
SchemaNames == { <<"K">>, <<"E">>, <<" ", "E">>, <<"K", " ">> }
Names == IF nodes = <<>> THEN SchemaNames \cup { <<"a">> } ELSE SchemaNames
Values == { <<"1">>, <<" ", "1">>, <<"1", " ">>, <<"a">> }

\* buffer, extended by c, is still the beginning of a member of the set
Extends(buffer, c, set) == \E t \in set : IsPrefix(Append(buffer, c), t)

Lang(c) ==
    CASE parser.state = "DeterminingIndentationLevel" ->
            \/ c = " " /\ parser.indentation_counter < MaxIndent
            \/ c = "\n"
            \/ Len(nodes) < MaxNodes /\ Extends(<<>>, c, Titles)
      [] parser.state = "InTitle" -> c = ";" \/ Extends(parser.title, c, Titles)
      [] parser.state = "DeterminingNodeType" ->
            c \in {"&", "|", " "} \/ Extends(<<>>, c, Names)
      [] parser.state = "SkipToLineEnd" -> c \in {"\n", "a"}
      [] parser.state = "InAssessmentName" ->
            c = "=" \/ Extends(parser.assessment_title, c, Names)
      [] parser.state = "InAssessmentValue" ->
            c \in {",", "\n"} \/ Extends(parser.assessment_value, c, Values)

\* SpecShape and SpecTree: trees of plain lines: "a;&", "a;|", "a;E=1,K=1"
\* and "a;E=1,K=11", each after up to maxIndent spaces.
PlainLang(c, maxNodes, maxIndent) ==
    CASE parser.state = "DeterminingIndentationLevel" ->
            \/ c = " " /\ parser.indentation_counter < maxIndent
            \/ c = "a" /\ Len(nodes) < maxNodes
      [] parser.state = "InTitle" -> c = ";"
      [] parser.state = "DeterminingNodeType" -> c \in {"&", "|", "E"}
      [] parser.state = "SkipToLineEnd" -> c = "\n"
      [] parser.state = "InAssessmentName" ->
            IF parser.assessment_title = <<>> THEN c = "K" ELSE c = "="
      [] parser.state = "InAssessmentValue" ->
            CASE parser.assessment_value = <<>> -> c = "1"
              [] parser.assessment_title = <<"E">> -> c = ","
              [] OTHER -> c = "\n" \/ (c = "1" /\ Len(parser.assessment_value) < 2)

-----------------------------------------------------------------------------
(* Actions.  Each reads one character, drawn from `chars`, in one parser
   state. *)

Init ==
    /\ pc = "start"
    /\ parser = AttackTreeParser_new
    /\ nodes = <<>>
    /\ OBJECT_COUNTER = <<0, 0>>
    /\ result = "none"
    /\ root = NoNode
    /\ lead = 0
    /\ line = [indent |-> 0, given |-> {}, blankAfter |-> -1, read |-> "", lines |-> 0]
    /\ indentOf = <<>>
    /\ complete = TRUE
    /\ answer = [call |-> "none"]
    /\ args = <<>>

\* buf_read.read_to_string(&mut text): the stream is read whole, or not.
ReadToString ==
    /\ pc = "start"
    /\ \/ pc' = "loop" /\ result' = result
       \/ pc' = "done" /\ result' = "FileReadError"
    /\ UNCHANGED <<parser, nodes, OBJECT_COUNTER, root, lead, line, indentOf,
                   complete, answer, args>>

\* The criterion name of the name=value pair that the handler took in, if any.
Committed(w) ==
    IF parser.state = "InAssessmentValue" /\ w.exit # "SyntaxError"
       /\ w.parser.assessment_value = <<>> /\ w.parser.assessment_title = <<>>
       /\ ParseU32(parser.assessment_value) # None
    THEN {Trim(parser.assessment_title)} ELSE {}

\* 1 when c is the first character of its line that is no space.
Started(c) == IF lead >= 0 /\ c \notin {" ", "\n", ""} THEN 1 ELSE 0

\* The text bookkeeping for the node that the handler built, if any.
Built(w, c) ==
    LET given == line.given \cup Committed(w)
    IN  IF Len(w.nodes) > Len(nodes)
        THEN /\ line' = [line EXCEPT !.given = {}, !.read = c, !.lines = @ + Started(c)]
             /\ indentOf' = Append(indentOf, line.indent)
             /\ complete' = (complete /\ (w.nodes[Len(w.nodes)].kind = "Leaf" =>
                                 \A i \in 1..Len(definition) : definition[i] \in given))
        ELSE /\ line' = [line EXCEPT !.given = given, !.read = c,
                                  !.lines = @ + Started(c)]
             /\ UNCHANGED <<indentOf, complete>>

\* The state a handler leaves behind, and the text bookkeeping for c: the
\* leading spaces of the line, the node lines' indentation, and the number of
\* node lines before the first blank line of the text.
Becomes(w, c) ==
    /\ parser' = w.parser
    /\ nodes' = w.nodes
    /\ OBJECT_COUNTER' = w.counter
    /\ result' = w.exit
    /\ pc' = IF w.exit = "none" THEN "loop" ELSE "done"
    /\ root' = root
    /\ UNCHANGED <<answer, args>>
    /\ lead' = IF c = "\n" THEN 0
               ELSE IF c = " " /\ lead >= 0 THEN lead + 1 ELSE -1
    /\ CASE parser.state = "DeterminingIndentationLevel" /\ c \notin {" ", "\n"} ->
               /\ line' = [line EXCEPT !.indent = lead, !.given = {}, !.read = c,
                                   !.lines = @ + Started(c)]
               /\ UNCHANGED <<indentOf, complete>>
         [] parser.state = "DeterminingIndentationLevel" /\ c = "\n" /\ lead = 0 ->
               /\ line' = [line EXCEPT !.blankAfter =
                                IF @ = -1 THEN Len(nodes) ELSE @, !.read = c]
               /\ UNCHANGED <<indentOf, complete>>
         [] OTHER -> Built(w, c)

InTitle(chars) ==
    /\ pc = "loop" /\ parser.state = "InTitle"
    /\ \E c \in chars : Becomes(on_InTitle(World, c), c)

DeterminingNodeType(chars) ==
    /\ pc = "loop" /\ parser.state = "DeterminingNodeType"
    /\ \E c \in chars : Becomes(on_DeterminingNodeType(World, c), c)

SkipToLineEnd(chars) ==
    /\ pc = "loop" /\ parser.state = "SkipToLineEnd"
    /\ \E c \in chars : Becomes(on_SkipToLineEnd(World, c), c)

DeterminingIndentationLevel(chars) ==
    /\ pc = "loop" /\ parser.state = "DeterminingIndentationLevel"
    /\ \E c \in chars : Becomes(on_DeterminingIndentationLevel(World, c), c)

InAssessmentName(chars) ==
    /\ pc = "loop" /\ parser.state = "InAssessmentName"
    /\ \E c \in chars : Becomes(on_InAssessmentName(World, c), c)

InAssessmentValue(chars) ==
    /\ pc = "loop" /\ parser.state = "InAssessmentValue"
    /\ \E c \in chars : Becomes(on_InAssessmentValue(World, c), c)

\* The text is at its end: the rest of parse().
EndOfText ==
    /\ pc = "loop"
    /\ LET w == on_EndOfText(World)
       IN  /\ parser' = w.parser
           /\ nodes' = w.nodes
           /\ OBJECT_COUNTER' = w.counter
           /\ result' = w.exit
           /\ root' = IF w.exit = "Ok" THEN w.parser.current_node ELSE NoNode
           /\ Built(w, "")
    /\ pc' = "done"
    /\ UNCHANGED <<lead, answer, args>>

\* The characters that may come next in a text of the language.
NextChars == { c \in Chars : Lang(c) }
NextShapeChars == { c \in Chars : PlainLang(c, MaxShapeNodes, MaxShapeIndent) }
NextTreeChars == { c \in Chars : PlainLang(c, MaxTreeNodes, MaxTreeIndent) }

Next ==
    \/ ReadToString
    \/ InTitle(NextChars)
    \/ DeterminingNodeType(NextChars)
    \/ SkipToLineEnd(NextChars)
    \/ DeterminingIndentationLevel(NextChars)
    \/ InAssessmentName(NextChars)
    \/ InAssessmentValue(NextChars)
    \/ EndOfText

Spec == Init /\ [][Next]_vars

NextShape ==
    \/ ReadToString
    \/ InTitle(NextShapeChars)
    \/ DeterminingNodeType(NextShapeChars)
    \/ SkipToLineEnd(NextShapeChars)
    \/ DeterminingIndentationLevel(NextShapeChars)
    \/ InAssessmentName(NextShapeChars)
    \/ InAssessmentValue(NextShapeChars)
    \/ EndOfText

SpecShape == Init /\ [][NextShape]_vars

NextTree ==
    \/ ReadToString
    \/ InTitle(NextTreeChars)
    \/ DeterminingNodeType(NextTreeChars)
    \/ SkipToLineEnd(NextTreeChars)
    \/ DeterminingIndentationLevel(NextTreeChars)
    \/ InAssessmentName(NextTreeChars)
    \/ InAssessmentValue(NextTreeChars)
    \/ EndOfText

SpecTree == Init /\ [][NextTree]_vars

-----------------------------------------------------------------------------
(* Reading the trees *)

Range(seq) == { seq[i] : i \in 1..Len(seq) }

\* get_children
get_children(heap, n) == heap[n].children

\* get_parent: the stored parent reference
get_parent(heap, n) == heap[n].parent

\* The nodes in whose children list n occurs.
Holders(heap, n) == { p \in 1..Len(heap) : n \in Range(get_children(heap, p)) }

\* The nodes of the tree under n: n and all it reaches through get_children.
RECURSIVE TreeNodes(_, _)
TreeNodes(heap, n) ==
    {n} \cup UNION { TreeNodes(heap, c) : c \in Range(get_children(heap, n)) }

\* The number of get_children steps from the first node down to n.
RECURSIVE Depth(_, _)
Depth(heap, n) ==
    IF Holders(heap, n) = {} THEN 0
    ELSE 1 + Depth(heap, CHOOSE p \in Holders(heap, n) : TRUE)

\* parse() has handed a tree to its caller
Returned == pc = "done" /\ result = "Ok"

\* This step built a node and placed it: add_node ran to its end.
Placed == Len(nodes') = Len(nodes) + 1 /\ result' \in {"none", "Ok"}

\* The node that this step built, and the node of the node line before it
NewNode == Len(nodes')
PreviousNode == Len(nodes)

\* The leading spaces of the new node's line against the previous node line's
Deeper == indentOf'[NewNode] > indentOf[PreviousNode]
Shallower == indentOf'[NewNode] < indentOf[PreviousNode]
SameIndentation == indentOf'[NewNode] = indentOf[PreviousNode]

-----------------------------------------------------------------------------
(* Placement of nodes: C1 to C5 *)

\* C1: in every tree that parse() returns, every child c of every node n has
\* a stored parent, and that parent has the id of n.
C1_ParentIsStructuralParent ==
    Returned =>
        \A n \in TreeNodes(nodes, root) : \A c \in Range(get_children(nodes, n)) :
            /\ get_parent(nodes, c) # NoNode
            /\ nodes[get_parent(nodes, c)].id = nodes[n].id

\* C2: a node whose line is indented deeper than the previous node line is
\* appended to the children of the last-added node, which is the node of that
\* previous line, and is its first and only child.
C2_DeeperLineIsFirstChild ==
    [][Placed /\ PreviousNode >= 1 /\ Deeper =>
          /\ parser.last_added_node = PreviousNode
          /\ nodes'[PreviousNode].children = <<NewNode>>
          /\ Holders(nodes', NewNode) = {PreviousNode}]_vars

C2_Witness ==
    /\ Len(nodes) >= 3 /\ result # "Panic"
    /\ indentOf[3] > indentOf[2]
    /\ nodes[2].children = <<3>>

\* C3, as claimed: a node whose line has the indentation of the previous node
\* line is appended to the children list that holds the previously placed
\* node, whichever node that is.
C3_SameIndentationIsSibling ==
    [][Placed /\ PreviousNode >= 1 /\ SameIndentation =>
          \E p \in Holders(nodes, parser.last_added_node) :
              nodes'[p].children = Append(nodes[p].children, NewNode)]_vars

\* C3, amended: this holds when the previous node is not the first node, and
\* the placement then never faults; a node at the indentation of the first
\* node, directly after it, becomes the first node's own child (and the call
\* faults if the first node is a Leaf).
C3_SameIndentationAfterFirst ==
    [][Len(nodes') = Len(nodes) + 1 /\ PreviousNode >= 1 /\ SameIndentation =>
          IF PreviousNode >= 2
          THEN /\ result' # "Panic"
               /\ \E p \in Holders(nodes, parser.last_added_node) :
                      nodes'[p].children = Append(nodes[p].children, NewNode)
          ELSE IF nodes[1].kind = "Leaf"
               THEN result' = "Panic"
               ELSE result' # "Panic" /\ nodes'[1].children = <<2>>]_vars

C3_Witness ==
    /\ Len(nodes) >= 3 /\ result # "Panic"
    /\ indentOf[2] > indentOf[1] /\ indentOf[3] = indentOf[2]
    /\ nodes[1].children = <<2, 3>>

\* C4: when a node's line is indented less than the previous node line, the
\* current pointer moves to the node that lists the holder of the previous
\* siblings, the new node is appended there, and so it sits one level above
\* the previous line's node.  (Stated for the placements that run to their
\* end.)
C4_ShallowerLineGoesUpOneLevel ==
    [][Placed /\ PreviousNode >= 1 /\ Shallower =>
          \E holder \in Holders(nodes, parser.last_added_node) :
              \E up \in Holders(nodes, holder) :
                  /\ parser'.current_node = up
                  /\ nodes'[up].children = Append(nodes[up].children, NewNode)
                  /\ Depth(nodes', NewNode) = Depth(nodes, PreviousNode) - 1]_vars

\* The tree that the indentation of the node lines describes: the parent of
\* a node is the nearest earlier node whose line is indented less.
Outdented(k) == { j \in 1..(k - 1) : indentOf[j] < indentOf[k] }

IntendedParent(k) ==
    IF Outdented(k) = {} THEN NoNode
    ELSE CHOOSE j \in Outdented(k) : \A i \in Outdented(k) : i <= j

IntendedChildren(n) ==
    SelectSeq([k \in 1..Len(nodes) |-> k], LAMBDA k : IntendedParent(k) = n)

IntendedHeap ==
    [n \in 1..Len(nodes) |-> [nodes[n] EXCEPT !.children = IntendedChildren(n)]]

\* Every node line after the first is below the first, and a line indented
\* less than the line before it is at the indentation of that line's parent.
OneLevelAtATime ==
    \A k \in 2..Len(nodes) :
        /\ IntendedParent(k) # NoNode
        /\ indentOf[k] < indentOf[k - 1] =>
              /\ IntendedParent(k - 1) # NoNode
              /\ indentOf[k] = indentOf[IntendedParent(k - 1)]

\* Every AND and OR line is followed by at least one line of its own.
NoEmptyInnerNode ==
    \A n \in 1..Len(nodes) : nodes[n].kind # "Leaf" => IntendedChildren(n) # <<>>

\* C5: when the indentation changes one level at a time and every leaf line
\* gives every criterion a value, the returned root is the first node and its
\* feasibility and feasibility value are those of the tree that the
\* indentation describes.  (Stated for texts in which every AND and OR line
\* has lines below it.)
C5_FeasibilityOfIndentedTree ==
    Returned /\ complete /\ OneLevelAtATime /\ NoEmptyInnerNode =>
        /\ root = 1
        /\ feasibility(nodes, root) = feasibility(IntendedHeap, 1)
        /\ feasibility_value(nodes, root) = feasibility_value(IntendedHeap, 1)

-----------------------------------------------------------------------------
(* Outcomes of parse(): C6 *)

\* C6: parse() ends by returning a root node, FileReadError or SyntaxError,
\* and in no other way.
C6_OnlyThreeOutcomes ==
    pc = "done" => result \in {"Ok", "FileReadError", "SyntaxError"}

-----------------------------------------------------------------------------
(* Leaf lines: C7 to C10 *)

\* This step took a criterion value to commit_assessment: in InAssessmentValue
\* every step but the push of a character does.
CommitStep ==
    /\ pc = "loop" /\ parser.state = "InAssessmentValue"
    /\ Len(parser'.assessment_value) # Len(parser.assessment_value) + 1

\* This step built a leaf.
LeafBuilt == Len(nodes') = Len(nodes) + 1 /\ nodes'[NewNode].kind = "Leaf"

\* C7: the first criterion value that is not an unsigned integer ends parse()
\* with SyntaxError: no tree is returned and no node is built by that step,
\* and parse() takes no step after it has returned.
C7_MalformedValueIsSyntaxError ==
    [][/\ pc # "done"
       /\ CommitStep /\ ParseU32(parser.assessment_value) = None =>
            /\ result' = "SyntaxError" /\ pc' = "done"
            /\ nodes' = nodes /\ root' = NoNode]_vars

C7_Witness ==
    /\ pc = "done" /\ result = "SyntaxError" /\ root = NoNode
    /\ parser.assessment_value = <<"a">> /\ Len(nodes) = 1

\* C8: when the text ends in InAssessmentValue, parse() leaves the nodes, the
\* assessments, the last added node and the outcome that it leaves when the
\* line ends with a newline before the end of the text.
C8_EndOfTextBuildsTheLeaf ==
    [][pc = "loop" /\ parser.state = "InAssessmentValue" /\ pc' = "done" =>
          LET n == Then(on_InAssessmentValue(World, "\n"), on_EndOfText)
          IN  /\ nodes' = n.nodes
              /\ result' = n.exit
              /\ root' = (IF n.exit = "Ok" THEN n.parser.current_node ELSE NoNode)
              /\ parser'.last_added_node = n.parser.last_added_node
              /\ parser'.parsed_assessments = n.parser.parsed_assessments]_vars

C8_Witness ==
    /\ Returned /\ parser.state = "InAssessmentValue"
    /\ Len(nodes) = 2 /\ nodes[2].kind = "Leaf" /\ nodes[1].children = <<2>>
    /\ nodes[2].criteria.assessments = << Some(1), Some(1) >>

\* C9: a leaf's vector has the schema's length and holds, at each schema
\* position, the value that parsed_assessments has for that criterion name,
\* or nothing; a well-formed value under whatever name is no error, and the
\* leaf of its line is built.
C9_LeafVectorFollowsSchema ==
    [][/\ LeafBuilt =>
            LET vector == nodes'[NewNode].criteria.assessments
                parsed == parser'.parsed_assessments
            IN  /\ Len(vector) = Len(definition)
                /\ \A i \in 1..Len(definition) :
                      IF definition[i] \in DOMAIN parsed
                      THEN vector[i] = Some(parsed[definition[i]])
                      ELSE vector[i] = None
       /\ CommitStep /\ ParseU32(parser.assessment_value) # None =>
            /\ result' # "SyntaxError"
            /\ parser'.state # "InAssessmentName" => LeafBuilt]_vars

C9_Witness ==
    /\ Returned /\ Len(nodes) = 1 /\ nodes[1].kind = "Leaf"
    /\ <<"a">> \in DOMAIN parser.parsed_assessments
    /\ nodes[1].criteria.assessments = << None, Some(1) >>

\* C10: the spaces around a criterion name and around its value do not count:
\* at the end of a name=value pair the parser builds what it builds from the
\* trimmed name and the trimmed value.
C10_SpacesAreTrimmed ==
    pc = "loop" /\ parser.state = "InAssessmentValue" =>
        LET trimmed == [World EXCEPT !.parser.assessment_title = Trim(@),
                                     !.parser.assessment_value = Trim(@)]
            Same(a, b) == /\ a.exit = b.exit
                          /\ a.nodes = b.nodes
                          /\ a.parser.parsed_assessments = b.parser.parsed_assessments
        IN  /\ Same(on_EndOfText(World), on_EndOfText(trimmed))
            /\ \A c \in {",", "\n"} :
                  Same(on_InAssessmentValue(World, c), on_InAssessmentValue(trimmed, c))

-----------------------------------------------------------------------------
(* Blank lines and the returned root: C11, C12 *)

\* This step read a line that holds a line terminator only.
BlankLine ==
    /\ pc = "loop" /\ pc' = "loop"
    /\ parser.state = "DeterminingIndentationLevel"
    /\ parser'.state = "DeterminingIndentationLevel"
    /\ lead = 0 /\ lead' = 0

\* C11: a blank line changes nothing that the rest of parse() reads: the
\* parser (previous_indentation and current_indentation among its fields),
\* the nodes and the id counter are after it what they were before it, so the
\* text with the blank line and the text without it give the same tree.
C11_BlankLinesAreSkipped ==
    [][BlankLine =>
          /\ parser' = parser /\ nodes' = nodes
          /\ OBJECT_COUNTER' = OBJECT_COUNTER
          /\ result' = result /\ root' = root
          /\ indentOf' = indentOf]_vars

C11_Witness ==
    /\ Returned /\ line.blankAfter = 1
    /\ indentOf = <<0, 1>> /\ nodes[1].children = <<2>> /\ root = 1

\* C12: the node that parse() returns is the first node; it has no parent,
\* and the parent references lead to it from every node, so from whichever
\* node current_node was at the end of the text.
C12_ReturnedRootIsFirstNode ==
    Returned =>
        /\ root = 1
        /\ get_parent(nodes, root) = NoNode
        /\ parser.current_node = root
        /\ \A n \in 1..Len(nodes) : TopOf(nodes, n) = root

C12_Witness ==
    /\ Returned /\ root = 1
    /\ indentOf = <<0, 1, 2>> /\ parser.last_added_node = 3
    /\ nodes[2].children = <<3>>

-----------------------------------------------------------------------------
(* Trees built through the model's own interface, and the calls of
   feasibility() and feasibility_value() on their nodes: SpecModel *)

\* The vectors of the leaves: different sums, equal sums of different
\* vectors, and an absent entry.
LeafVectors ==
    { << Some(1), Some(2) >>, << Some(2), Some(1) >>, << None, Some(1) >> }

\* The nodes a new node can be added to as a child: none for the first node,
\* then any AndNode or OrNode.
Parents ==
    IF nodes = <<>> THEN {NoNode}
    ELSE { p \in 1..Len(nodes) : nodes[p].kind # "Leaf" }

\* The constructed node, added to the children of its parent.  The tree is
\* built first (pc = "model") and then asked (pc = "asked").
Grown(node) ==
    LET built == Construct(World, node)
        w == IF node.parent = NoNode THEN built
             ELSE add_child(built, node.parent, Len(built.nodes))
    IN  /\ pc = "model" /\ Len(nodes) < MaxModelNodes
        /\ nodes' = w.nodes
        /\ OBJECT_COUNTER' = w.counter
        /\ UNCHANGED <<pc, parser, result, root, lead, line, indentOf, complete, answer, args>>

BuildLeaf ==
    \E p \in Parents : \E vector \in LeafVectors :
        Grown(Leaf_new(<<"a">>, p, FeasibilityAssessment_new(definition, vector)[1],
                       generate_id(OBJECT_COUNTER)))

BuildAndNode ==
    \E p \in Parents :
        Grown(InnerNode_new("AndNode", <<"a">>, p, generate_id(OBJECT_COUNTER)))

BuildOrNode ==
    \E p \in Parents :
        Grown(InnerNode_new("OrNode", <<"a">>, p, generate_id(OBJECT_COUNTER)))

\* A feasibility() that takes the children out of the node it is called
\* on (against C27).
CallFeasibility_Taking ==
    /\ pc = "model"
    /\ \E n \in 1..Len(nodes) :
          LET r == feasibility(nodes, n)
          IN  /\ answer' = [call |-> "feasibility", node |-> n,
                            outcome |-> IF r = Panicked THEN "Panic"
                                        ELSE IF IsOk(r) THEN "Ok" ELSE "Err",
                            returned |-> IF r # Panicked /\ IsOk(r) THEN Some(r[2]) ELSE None]
              /\ nodes' = [nodes EXCEPT ![n].children = <<>>]
    /\ pc' = "asked"
    /\ UNCHANGED <<parser, OBJECT_COUNTER, result, root, lead, line,
                   indentOf, complete, args>>

\* node.feasibility()
CallFeasibility ==
    /\ pc = "model"
    /\ \E n \in 1..Len(nodes) :
          LET r == feasibility(nodes, n)
          IN  answer' = [call |-> "feasibility", node |-> n,
                         outcome |-> IF r = Panicked THEN "Panic"
                                     ELSE IF IsOk(r) THEN "Ok" ELSE "Err",
                         returned |-> IF r # Panicked /\ IsOk(r) THEN Some(r[2]) ELSE None]
    /\ pc' = "asked"
    /\ UNCHANGED <<parser, nodes, OBJECT_COUNTER, result, root, lead, line,
                   indentOf, complete, args>>

\* node.feasibility_value()
CallFeasibilityValue ==
    /\ pc = "model"
    /\ \E n \in 1..Len(nodes) :
          LET panics == feasibility(nodes, n) = Panicked
          IN  answer' = [call |-> "feasibility_value", node |-> n,
                         outcome |-> IF panics THEN "Panic" ELSE "Ok",
                         returned |-> IF panics THEN None
                                      ELSE Some(feasibility_value(nodes, n))]
    /\ pc' = "asked"
    /\ UNCHANGED <<parser, nodes, OBJECT_COUNTER, result, root, lead, line,
                   indentOf, complete, args>>

\* node.render()
CallRender ==
    /\ pc = "model"
    /\ \E n \in 1..Len(nodes) :
          LET r == render(nodes, n)
          IN  answer' = [call |-> "render", node |-> n,
                         outcome |-> IF r = Panicked THEN "Panic" ELSE "Ok",
                         returned |-> IF r = Panicked THEN None ELSE Some(r)]
    /\ pc' = "asked"
    /\ UNCHANGED <<parser, nodes, OBJECT_COUNTER, result, root, lead, line,
                   indentOf, complete, args>>

\* Display of a u32 held as <<high, low>>: its decimal digits, by division
\* of the two halves by 10
RECURSIVE DisplayU32(_)
DisplayU32(id) ==
    LET rest == (id[1] % 10) * Half + id[2]
        quotient == <<id[1] \div 10, rest \div 10>>
        digit == <<Digits[(rest % 10) + 1]>>
    IN  IF quotient = <<0, 0>> THEN digit ELSE DisplayU32(quotient) \o digit

-----------------------------------------------------------------------------
(* The render module: src/src/render/mod.rs *)

\* flatten: the node, then the flattened children in stored order
RECURSIVE flatten(_, _)
flatten(heap, n) ==
    LET RECURSIVE each(_)
        each(children) ==
            IF children = <<>> THEN <<>>
            ELSE flatten(heap, Head(children)) \o each(Tail(children))
    IN  <<n>> \o each(get_children(heap, n))

\* render_to_dot_string(&root_node): the text of the graph, or the panic of
\* a node's render()
render_to_dot_string(heap, root_node) ==
    LET flat_nodes_list == flatten(heap, root_node)
        rendered == [i \in 1..Len(flat_nodes_list) |-> render(heap, flat_nodes_list[i])]
        labels_texts ==
            [i \in 1..Len(flat_nodes_list) |->
                DisplayU32(heap[flat_nodes_list[i]].id) \o <<" ", "[">>
                    \o rendered[i] \o <<"]">>]
        HasParent(n) == get_parent(heap, n) # NoNode
        with_parent == SelectSeq(flat_nodes_list, HasParent)
        edges_texts ==
            [i \in 1..Len(with_parent) |->
                DisplayU32(heap[get_parent(heap, with_parent[i])].id)
                    \o <<" ", "-", ">", " ">>
                    \o DisplayU32(heap[with_parent[i]].id) \o <<";">>]
    IN  IF \E i \in 1..Len(rendered) : rendered[i] = Panicked THEN Panicked
        ELSE <<"d", "i", "g", "r", "a", "p", "h", " ", "G", " ", "{", "\n", "\n", "n", "o", "d", "e", " ", "[", "s", "h", "a", "p", "e", "=", "b", "o", "x", "]", "\n", "\n">>
                 \o join(labels_texts, <<"\n">>) \o <<"\n", "\n">>
                 \o join(edges_texts, <<"\n">>) \o <<"\n", "\n", "}">>

\* render_to_dot_string(&node)
CallRenderToDotString ==
    /\ pc = "model"
    /\ \E n \in 1..Len(nodes) :
          LET r == render_to_dot_string(nodes, n)
          IN  answer' = [call |-> "render_to_dot_string", node |-> n,
                         outcome |-> IF r = Panicked THEN "Panic" ELSE "Ok",
                         returned |-> IF r = Panicked THEN None ELSE Some(r)]
    /\ pc' = "asked"
    /\ UNCHANGED <<parser, nodes, OBJECT_COUNTER, result, root, lead, line,
                   indentOf, complete, args>>

-----------------------------------------------------------------------------
\* node.feasibility() once more, on the node it was called on and returned
\* from
CallFeasibilityAgain ==
    /\ pc = "asked" /\ answer.call = "feasibility" /\ answer.outcome # "Panic"
    /\ LET r == feasibility(nodes, answer.node)
       IN  answer' = [call |-> "feasibility", node |-> answer.node,
                      outcome |-> IF r = Panicked THEN "Panic"
                                  ELSE IF IsOk(r) THEN "Ok" ELSE "Err",
                      returned |-> IF r # Panicked /\ IsOk(r) THEN Some(r[2]) ELSE None]
    /\ pc' = "again"
    /\ UNCHANGED <<parser, nodes, OBJECT_COUNTER, result, root, lead, line,
                   indentOf, complete, args>>

InitModel ==
    /\ pc = "model"
    /\ parser = AttackTreeParser_new
    /\ nodes = <<>>
    /\ OBJECT_COUNTER = <<0, 0>>
    /\ result = "none"
    /\ root = NoNode
    /\ lead = 0
    /\ line = [indent |-> 0, given |-> {}, blankAfter |-> -1, read |-> "", lines |-> 0]
    /\ indentOf = <<>>
    /\ complete = TRUE
    /\ answer = [call |-> "none"]
    /\ args = <<>>

NextModel ==
    \/ BuildLeaf
    \/ BuildAndNode
    \/ BuildOrNode
    \/ CallFeasibility
    \/ CallFeasibilityValue
    \/ CallFeasibilityAgain
    \/ CallRender
    \/ CallRenderToDotString

SpecModel == InitModel /\ [][NextModel]_vars

-----------------------------------------------------------------------------
(* Aggregation: C13 to C20 *)

\* The vector of the leaf at address n is `vector`.
LeafOf(n, vector) ==
    /\ n <= Len(nodes) /\ nodes[n].kind = "Leaf"
    /\ nodes[n].criteria.assessments = vector

\* The last call was `call` on a node of kind `kind`.
Asked(call, kind) == answer.call = call /\ nodes[answer.node].kind = kind

\* What feasibility() gives for the children of n, in child order
ChildResults(n) ==
    [i \in 1..Len(get_children(nodes, n)) |-> feasibility(nodes, get_children(nodes, n)[i])]

AllSucceed(results) == \A i \in 1..Len(results) : IsOk(results[i])

\* The greatest of the children's values at position k, absent counted as 0
MaxAt(results, k) ==
    LET values == { unwrap_or(results[i][2].assessments[k], 0) : i \in 1..Len(results) }
    IN  CHOOSE m \in values : \A v \in values : v <= m

\* C13: feasibility() of an OrNode whose children all succeed returns the
\* assessment of one of the children, and no child has a smaller sum.
C13_OrReturnsMinimumSumChild ==
    answer.call = "feasibility" /\ nodes[answer.node].kind = "OrNode" =>
        LET results == ChildResults(answer.node)
        IN  results # <<>> /\ AllSucceed(results) =>
                /\ answer.outcome = "Ok"
                /\ \E i \in 1..Len(results) :
                      /\ answer.returned = Some(results[i][2])
                      /\ \A j \in 1..Len(results) :
                            sum(results[i][2]) <= sum(results[j][2])

\* an OrNode of three leaves whose least sum is the second leaf's
C13_Witness ==
    /\ Asked("feasibility", "OrNode") /\ answer.node = 1
    /\ nodes[1].children = <<2, 3, 4>>
    /\ LeafOf(2, << Some(1), Some(2) >>)
    /\ LeafOf(3, << None, Some(1) >>)
    /\ LeafOf(4, << Some(2), Some(1) >>)
    /\ answer.returned = Some(nodes[3].criteria)

\* C14: among the children of the least sum, feasibility() of an OrNode
\* returns the assessment of the first in child order.
C14_OrTieGoesToFirstChild ==
    answer.call = "feasibility" /\ nodes[answer.node].kind = "OrNode" =>
        LET results == ChildResults(answer.node)
        IN  results # <<>> /\ AllSucceed(results) =>
                \E i \in 1..Len(results) :
                    /\ answer.returned = Some(results[i][2])
                    /\ \A j \in 1..Len(results) :
                          sum(results[i][2]) <= sum(results[j][2])
                    /\ \A j \in 1..(i - 1) :
                          sum(results[j][2]) > sum(results[i][2])

\* an OrNode whose leaves share the least sum
C14_Witness ==
    /\ Asked("feasibility", "OrNode") /\ answer.node = 1
    /\ nodes[1].children = <<2, 3>>
    /\ LeafOf(2, << Some(2), Some(1) >>)
    /\ LeafOf(3, << Some(1), Some(2) >>)
    /\ answer.returned = Some(nodes[2].criteria)

\* C15: feasibility() of an AndNode with two or more children that all
\* succeed holds at every position the greatest of the children's values,
\* and feasibility_value() is the sum of these; the children's values are
\* those of their own feasibility(), whatever kind of node they are.
C15_AndReturnsPositionwiseMaximum ==
    answer.call # "none" /\ nodes[answer.node].kind = "AndNode" =>
        LET results == ChildResults(answer.node)
            maxima == [k \in 1..Len(definition) |-> Some(MaxAt(results, k))]
        IN  Len(results) >= 2 /\ AllSucceed(results) =>
                /\ answer.outcome = "Ok"
                /\ answer.call = "feasibility" =>
                      /\ answer.returned[1].assessments = maxima
                      /\ answer.returned[1].definition = definition
                /\ answer.call = "feasibility_value" =>
                      answer.returned = Some(SumSeq([k \in 1..Len(definition) |->
                                                        MaxAt(results, k)]))

\* AND[ OR[(1,2)], (2,1) ] has the value of (2,2)
C15_Witness ==
    /\ Asked("feasibility_value", "AndNode") /\ answer.node = 1
    /\ nodes[1].children = <<2, 3>> /\ nodes[2].kind = "OrNode"
    /\ nodes[2].children = <<4>>
    /\ LeafOf(4, << Some(1), Some(2) >>)
    /\ LeafOf(3, << Some(2), Some(1) >>)
    /\ answer.returned = Some(4)

\* C16: feasibility() of an AndNode or OrNode without children returns the
\* error (TreeError has one variant, AssessmentVectorMismatch).
C16_EmptyNodeIsMismatch ==
    /\ answer.call = "feasibility"
    /\ nodes[answer.node].kind # "Leaf"
    /\ get_children(nodes, answer.node) = <<>>
    => answer.outcome = "Err" /\ answer.returned = None

C16_Witness ==
    /\ Asked("feasibility", "OrNode") /\ get_children(nodes, answer.node) = <<>>
    /\ answer.outcome = "Err"
    /\ \E n \in 1..Len(nodes) :
          nodes[n].kind = "AndNode" /\ get_children(nodes, n) = <<>>

\* C17: feasibility_value() returns the sum of the vector of feasibility()
\* when that succeeds, absent entries counted as 0, and 0 when it does not.
C17_ValueIsSumOrZero ==
    answer.call = "feasibility_value" =>
        LET r == feasibility(nodes, answer.node)
            entries == IF IsOk(r) THEN r[2].assessments ELSE <<>>
        IN  /\ answer.outcome = "Ok"
            /\ answer.returned =
                  Some(SumSeq([k \in 1..Len(entries) |-> unwrap_or(entries[k], 0)]))

\* C18: feasibility() returns an assessment or the error, on every node of
\* every tree.
C18_FeasibilityNeverCrashes ==
    answer.call = "feasibility" => answer.outcome \in {"Ok", "Err"}

\* The left-to-right fold of component_wise_max over assessments
RECURSIVE FoldMax(_, _)
FoldMax(acc, rest) ==
    IF rest = <<>> THEN acc
    ELSE FoldMax([acc EXCEPT !.assessments =
                      [k \in 1..Len(acc.assessments) |->
                          Some(Max(unwrap_or(acc.assessments[k], 0),
                                   unwrap_or(Head(rest).assessments[k], 0)))]],
                 Tail(rest))

\* The assessments of the children that succeed, in child order
Succeeding(results) ==
    LET oks == SelectSeq(results, IsOk)
    IN  [i \in 1..Len(oks) |-> oks[i][2]]

\* C19: feasibility() of an AndNode of which at least one child succeeds
\* returns the fold of the succeeding children, whatever the other children.
C19_AndSkipsFailingChildren ==
    answer.call = "feasibility" /\ nodes[answer.node].kind = "AndNode" =>
        LET good == Succeeding(ChildResults(answer.node))
        IN  good # <<>> =>
                /\ answer.outcome = "Ok"
                /\ answer.returned = Some(FoldMax(Head(good), Tail(good)))

\* C19 where the failing children return the error: children without
\* children of their own.
C19_AndSkipsChildrenThatReturnErr ==
    answer.call = "feasibility" /\ nodes[answer.node].kind = "AndNode" =>
        LET results == ChildResults(answer.node)
            good == Succeeding(results)
        IN  good # <<>> /\ (\A i \in 1..Len(results) : results[i] # Panicked) =>
                /\ answer.outcome = "Ok"
                /\ answer.returned = Some(FoldMax(Head(good), Tail(good)))

\* AND[ OR[], (1,2), (2,1) ] is (2,2)
C19_Witness ==
    /\ Asked("feasibility", "AndNode") /\ answer.node = 1
    /\ nodes[1].children = <<2, 3, 4>>
    /\ nodes[2].kind = "OrNode" /\ nodes[2].children = <<>>
    /\ LeafOf(3, << Some(1), Some(2) >>) /\ LeafOf(4, << Some(2), Some(1) >>)
    /\ answer.returned[1].assessments = << Some(2), Some(2) >>

\* C20: feasibility() of an AndNode with children of which none succeeds
\* returns the error, and its feasibility_value() is 0.
C20_AndOfFailingChildrenFails ==
    answer.call # "none" /\ nodes[answer.node].kind = "AndNode" =>
        LET results == ChildResults(answer.node)
        IN  results # <<>> /\ Succeeding(results) = <<>> =>
                /\ answer.call = "feasibility" => answer.outcome = "Err"
                /\ answer.call = "feasibility_value" =>
                      answer.outcome = "Ok" /\ answer.returned = Some(0)

-----------------------------------------------------------------------------
(* OrNode over failing children: C21 *)

\* C21: feasibility() of an OrNode with at least one succeeding and at least
\* one failing child returns the assessment of the first succeeding child of
\* least sum; the failing children are left out.
C21_OrSkipsFailingChildren ==
    answer.call = "feasibility" /\ nodes[answer.node].kind = "OrNode" =>
        LET results == ChildResults(answer.node)
            good == SelectSeq(results, IsOk)
        IN  good # <<>> /\ ~AllSucceed(results) =>
                /\ answer.outcome = "Ok"
                /\ answer.returned = Some(min_by_key_sum(good)[2])

-----------------------------------------------------------------------------
(* Assessments on their own: the calls of FeasibilityAssessment::new and of
   component_wise_max on every schema and vector of the bounds: SpecAssess *)

\* The greatest number of criteria of a schema and of entries of a vector
MaxCriteria == 2

\* The criteria of the schemas
SchemaIds == { <<"E">>, <<"K">> }

\* The entries of the vectors: absent, zero, and a positive value
Entries == { None, Some(0), Some(2) }

Schemas == UNION { [1..k -> SchemaIds] : k \in 0..MaxCriteria }

Vectors == UNION { [1..k -> Entries] : k \in 0..MaxCriteria }

\* The assessments that FeasibilityAssessment::new gives
Assessments ==
    { FeasibilityAssessment_new(s, v)[1] :
        <<s, v>> \in { sv \in Schemas \X Vectors :
                          FeasibilityAssessment_new(sv[1], sv[2]) # None } }

\* FeasibilityAssessment::new(&schema, &vector)
CallNew ==
    /\ pc = "assess"
    /\ LET r == FeasibilityAssessment_new(args.schema, args.vector)
       IN  /\ answer' = [call |-> "new",
                         outcome |-> IF r = None THEN "Err" ELSE "Ok",
                         returned |-> r]
           /\ pc' = IF r = None THEN "asked" ELSE "built"
    /\ UNCHANGED <<parser, nodes, OBJECT_COUNTER, result, root, lead, line,
                   indentOf, complete, args>>

\* self.component_wise_max(&other), self being the assessment just built
CallComponentWiseMax ==
    /\ pc = "built"
    /\ LET self == answer.returned[1]
           r == component_wise_max(self, args.other)
       IN  answer' = [call |-> "component_wise_max", self |-> self,
                      outcome |-> IF r = None THEN "Err" ELSE "Ok",
                      returned |-> r]
    /\ pc' = "asked"
    /\ UNCHANGED <<parser, nodes, OBJECT_COUNTER, result, root, lead, line,
                   indentOf, complete, args>>

InitAssess ==
    /\ pc = "assess"
    /\ parser = AttackTreeParser_new
    /\ nodes = <<>>
    /\ OBJECT_COUNTER = <<0, 0>>
    /\ result = "none"
    /\ root = NoNode
    /\ lead = 0
    /\ line = [indent |-> 0, given |-> {}, blankAfter |-> -1, read |-> "", lines |-> 0]
    /\ indentOf = <<>>
    /\ complete = TRUE
    /\ answer = [call |-> "none"]
    /\ args \in [schema : Schemas, vector : Vectors, other : Assessments]

NextAssess ==
    \/ CallNew
    \/ CallComponentWiseMax

SpecAssess == InitAssess /\ [][NextAssess]_vars

\* C22: FeasibilityAssessment::new succeeds exactly when the vector is as
\* long as the schema, and then gives an assessment of that schema and that
\* vector; otherwise it returns the error.  Every assessment that is built
\* or returned has a vector as long as its schema.
C22_NewSucceedsIffLengthsMatch ==
    /\ answer.call = "new" =>
          /\ answer.outcome = "Ok" <=> Len(args.vector) = Len(args.schema)
          /\ answer.outcome = "Ok" =>
                answer.returned = Some([definition |-> args.schema,
                                        assessments |-> args.vector])
          /\ answer.outcome # "Ok" => answer.outcome = "Err" /\ answer.returned = None
    /\ answer.call \in {"new", "component_wise_max"} /\ answer.outcome = "Ok" =>
          Len(answer.returned[1].assessments) = Len(answer.returned[1].definition)

\* a vector of one entry against a schema of two criteria
C22_Witness ==
    /\ answer.call = "new" /\ answer.outcome = "Err"
    /\ Len(args.vector) = 1 /\ Len(args.schema) = 2

\* C23: a.component_wise_max(b) and b.component_wise_max(a) of two
\* assessments of equal length both succeed with equal vectors, as long as
\* the inputs; of two assessments of different lengths both return the error.
C23_MaxIsCommutative ==
    answer.call = "component_wise_max" =>
        LET a == answer.self
            b == args.other
            swapped == component_wise_max(b, a)
        IN  IF Len(a.assessments) = Len(b.assessments)
            THEN /\ answer.outcome = "Ok" /\ swapped # None
                 /\ answer.returned[1].assessments = swapped[1].assessments
                 /\ Len(answer.returned[1].assessments) = Len(a.assessments)
            ELSE answer.outcome = "Err" /\ answer.returned = None /\ swapped = None

\* (2,-) and (0,2) of different schemas give (2,2)
C23_Witness ==
    /\ answer.call = "component_wise_max" /\ answer.outcome = "Ok"
    /\ answer.self.assessments = << Some(2), None >>
    /\ args.other.assessments = << Some(0), Some(2) >>
    /\ answer.self.definition # args.other.definition
    /\ answer.returned[1].assessments = << Some(2), Some(2) >>

\* C24: every position of the result of component_wise_max on two
\* assessments of equal length is present, is not less than either input at
\* that position, and is the value of one of them, an absent input counted
\* as 0.
C24_MaxHoldsTheGreaterValue ==
    answer.call = "component_wise_max"
    /\ Len(answer.self.assessments) = Len(args.other.assessments) =>
        /\ answer.outcome = "Ok"
        /\ \A k \in 1..Len(answer.self.assessments) :
              LET a == unwrap_or(answer.self.assessments[k], 0)
                  b == unwrap_or(args.other.assessments[k], 0)
                  m == answer.returned[1].assessments[k]
              IN  m # None /\ m[1] >= a /\ m[1] >= b /\ m[1] \in {a, b}

\* (-,0) and (-,2) give (0,2): the position absent in both is 0
C24_Witness ==
    /\ answer.call = "component_wise_max"
    /\ answer.self.assessments = << None, Some(0) >>
    /\ args.other.assessments = << None, Some(2) >>
    /\ answer.returned[1].assessments = << Some(0), Some(2) >>

-----------------------------------------------------------------------------
(* Children, ids and reads of the tree: C25 to C27 *)

\* C25: a step that changes the children of a node appends the node just
\* built at their end, changes no other field of that node and no other
\* node; the nodes being built in the order of their lines, the children of
\* every node are at all times in the order of their lines.
C25_ChildrenKeepInsertionOrder ==
    /\ [](\A n \in 1..Len(nodes) :
            \A i, j \in 1..Len(get_children(nodes, n)) :
                i < j => get_children(nodes, n)[i] < get_children(nodes, n)[j])
    /\ [][/\ Len(nodes') >= Len(nodes)
          /\ Cardinality({ n \in 1..Len(nodes) : nodes'[n] # nodes[n] }) <= 1
          /\ \A n \in 1..Len(nodes) :
                nodes'[n] # nodes[n] =>
                    /\ nodes[n].kind \in {"AndNode", "OrNode"}
                    /\ Len(nodes') = Len(nodes) + 1
                    /\ nodes'[n] = [nodes[n] EXCEPT !.children = Append(@, Len(nodes'))]
                    /\ get_children(nodes', n) = Append(get_children(nodes, n), Len(nodes'))
         ]_vars

\* "a;&", " a;&", "  a;..", " a;..": the first node holds the second and the
\* fourth line, the second node the third
C25_Witness ==
    /\ Returned
    /\ get_children(nodes, 1) = <<2, 4>> /\ get_children(nodes, 2) = <<3>>
    /\ indentOf = <<0, 1, 2, 1>>

\* SpecIds: parse() of plain lines in a process that has issued ids before:
\* none, a few, and all but two or one of the 2^32 values of a u32.
MaxIdNodes == 3
MaxIdIndent == 1

IssuedBefore == { <<0, 0>>, <<0, 7>>, <<Half - 1, Half - 2>>, <<Half - 1, Half - 1>> }

NextIdChars == { c \in Chars : PlainLang(c, MaxIdNodes, MaxIdIndent) }

InitIds ==
    /\ pc = "start"
    /\ parser = AttackTreeParser_new
    /\ nodes = <<>>
    /\ OBJECT_COUNTER \in IssuedBefore
    /\ result = "none"
    /\ root = NoNode
    /\ lead = 0
    /\ line = [indent |-> 0, given |-> {}, blankAfter |-> -1, read |-> "", lines |-> 0]
    /\ indentOf = <<>>
    /\ complete = TRUE
    /\ answer = [call |-> "none"]
    /\ args = <<>>

NextIds ==
    \/ ReadToString
    \/ InTitle(NextIdChars)
    \/ DeterminingNodeType(NextIdChars)
    \/ SkipToLineEnd(NextIdChars)
    \/ DeterminingIndentationLevel(NextIdChars)
    \/ InAssessmentName(NextIdChars)
    \/ InAssessmentValue(NextIdChars)
    \/ EndOfText

SpecIds == InitIds /\ [][NextIds]_vars

\* The order of u32 values
IdLess(a, b) == a[1] < b[1] \/ (a[1] = b[1] /\ a[2] < b[2])

\* Every node built in a step takes the value of generate_id as its id, one
\* call for one node, and no step changes the id of a node.
IdsAreGeneratedAndKept ==
    [][/\ \A n \in 1..Len(nodes) : nodes'[n].id = nodes[n].id
       /\ Len(nodes') > Len(nodes) =>
             /\ Len(nodes') = Len(nodes) + 1
             /\ nodes'[Len(nodes')].id = generate_id(OBJECT_COUNTER)
             /\ OBJECT_COUNTER' = fetch_add(OBJECT_COUNTER)]_vars

\* In a returned tree the node of an earlier line has the smaller id.
IdsIncrease ==
    Returned => \A m, n \in TreeNodes(nodes, root) :
                    m < n => IdLess(nodes[m].id, nodes[n].id)

\* C26: every node takes its id from generate_id when it is built and keeps
\* it; in every returned tree the ids are pairwise distinct and increase
\* strictly in the order of the nodes' lines.
C26_IdsIncreaseInLineOrder == IdsAreGeneratedAndKept /\ []IdsIncrease

\* C26 for the runs in which the counter does not pass 2^32: no node after
\* the first has the id 0.
C26_IdsIncreaseUnlessWrapped ==
    /\ IdsAreGeneratedAndKept
    /\ []((\A n \in 2..Len(nodes) : nodes[n].id # <<0, 0>>) => IdsIncrease)

\* three lines in a process that has issued 7 ids: the ids 7, 8, 9
C26_Witness ==
    /\ Returned /\ Len(nodes) = 3 /\ TreeNodes(nodes, root) = {1, 2, 3}
    /\ nodes[1].id = <<0, 7>> /\ nodes[2].id = <<0, 8>> /\ nodes[3].id = <<0, 9>>

\* A step that is a call of feasibility() or feasibility_value()
Called == (pc = "model" /\ pc' = "asked") \/ (pc = "asked" /\ pc' = "again")

-----------------------------------------------------------------------------
(* Rendering: C28, C29 *)

\* t occurs in s
Contains(s, t) ==
    \E i \in 0..(Len(s) - Len(t)) : SubSeq(s, i + 1, i + Len(t)) = t

\* The id=value pairs of a vector, one per criterion of the schema and in
\* its order, an absent entry as 0
Pairs(vector) ==
    join([i \in 1..Len(definition) |->
             criterion_id(definition[i]) \o <<"=">> \o Display(unwrap_or(vector[i], 0))],
         <<",", " ">>)

\* What a render string has to combine: the title at its start, then the
\* value, then the pairs, and the shape hint of the kind of node.
Combines(s, title, value, vector, kind) ==
    /\ IsPrefix(<<"l", "a", "b", "e", "l", "=", "\"">> \o title \o BackslashN, s)
    /\ Contains(s, BackslashN \o Display(value) \o BackslashN \o Pairs(vector))
    /\ kind = "AndNode" => Contains(s, <<"=", "t", "r", "a", "p", "e", "z", "i", "u", "m">>)
    /\ kind = "OrNode" => Contains(s, <<"=", "i", "n", "v", "t", "r", "a", "p", "e", "z", "i", "u", "m">>)
    /\ kind = "Leaf" => ~Contains(s, <<"s", "h", "a", "p", "e">>)

\* C28: render() of every node returns a string with the title, the value
\* of feasibility_value(), the id=value pairs of the schema and the shape
\* hint of the node; where the node has no feasibility the value and the
\* entries are 0.
C28_RenderCombinesAll ==
    answer.call = "render" =>
        LET n == answer.node
            f == feasibility(nodes, n)
            computable == f # Panicked /\ IsOk(f)
        IN  /\ answer.outcome = "Ok"
            /\ Combines(answer.returned[1], nodes[n].description,
                        IF computable THEN sum(f[2]) ELSE 0,
                        IF computable THEN f[2].assessments
                        ELSE [i \in 1..Len(definition) |-> None],
                        nodes[n].kind)

\* C28 for the nodes whose feasibility() returns an assessment
C28_RenderOfComputableNode ==
    answer.call = "render" =>
        LET n == answer.node
            f == feasibility(nodes, n)
        IN  f # Panicked /\ IsOk(f) =>
                /\ answer.outcome = "Ok"
                /\ Combines(answer.returned[1], nodes[n].description,
                            sum(f[2]), f[2].assessments, nodes[n].kind)

\* AND[ (1,2), (2,1) ] renders as  label="a\n4\nE=2, K=2" shape=trapezium
C28_Witness ==
    /\ Asked("render", "AndNode") /\ answer.node = 1
    /\ nodes[1].children = <<2, 3>>
    /\ LeafOf(2, << Some(1), Some(2) >>) /\ LeafOf(3, << Some(2), Some(1) >>)
    /\ answer.returned =
          Some(<<"l", "a", "b", "e", "l", "=", "\"", "a", "\\", "n", "4", "\\", "n", "E", "=", "2", ",", " ", "K", "=", "2", "\"", " ", "s", "h", "a", "p", "e", "=", "t", "r", "a", "p", "e", "z", "i", "u", "m">>)

\* The lines of a text
RECURSIVE Lines(_)
Lines(s) ==
    IF \A i \in 1..Len(s) : s[i] # "\n" THEN <<s>>
    ELSE LET end == CHOOSE i \in 1..Len(s) :
                        s[i] = "\n" /\ \A j \in 1..(i - 1) : s[j] # "\n"
         IN  <<SubSeq(s, 1, end - 1)>> \o Lines(SubSeq(s, end + 1, Len(s)))

\* A label line begins with the id of its node; an edge line has the arrow.
IsLabelLine(l) == l # <<>> /\ IsDigit(l[1]) /\ Contains(l, <<" ", "[">>)
IsEdgeLine(l) == Contains(l, <<" ", "-", ">", " ">>)

LabelOf(heap, n) == DisplayU32(heap[n].id) \o <<" ", "[">>
EdgeOf(heap, p, n) ==
    DisplayU32(heap[p].id) \o <<" ", "-", ">", " ">> \o DisplayU32(heap[n].id) \o <<";">>

\* What the text of the graph of the tree under `top` has to hold: the label
\* lines are one per node under top, top first, the nodes under every node
\* in one run of lines that begins with the node, the children in stored
\* order; the edge lines are one per node that has a parent, from the id of
\* the stored parent, and none for top.
Graph(text, top) ==
    LET lines == Lines(text)
        labels == SelectSeq(lines, IsLabelLine)
        edges == SelectSeq(lines, IsEdgeLine)
        reach == TreeNodes(nodes, top)
        Pos(n) == CHOOSE i \in 1..Len(labels) : IsPrefix(LabelOf(nodes, n), labels[i])
        linked == { n \in reach \ {top} : get_parent(nodes, n) # NoNode }
    IN  /\ Len(labels) = Cardinality(reach)
        /\ \A n \in reach :
              /\ \E i \in 1..Len(labels) : IsPrefix(LabelOf(nodes, n), labels[i])
              /\ { Pos(m) : m \in TreeNodes(nodes, n) } =
                    Pos(n)..(Pos(n) + Cardinality(TreeNodes(nodes, n)) - 1)
              /\ \A i, j \in 1..Len(get_children(nodes, n)) :
                    i < j => Pos(get_children(nodes, n)[i]) < Pos(get_children(nodes, n)[j])
        /\ Pos(top) = 1
        /\ Len(edges) = Cardinality(linked)
        /\ \A n \in linked :
              \E k \in 1..Len(edges) : edges[k] = EdgeOf(nodes, get_parent(nodes, n), n)

\* C29: render_to_dot_string of the root of a tree (a node without parent)
\* returns a text with one label line per node reachable from the root, in
\* depth-first pre-order, and one edge line per reachable node with a
\* parent, the root having none.
C29_DotHasEveryNodeAndEdge ==
    answer.call = "render_to_dot_string"
    /\ get_parent(nodes, answer.node) = NoNode =>
        /\ answer.outcome = "Ok"
        /\ Graph(answer.returned[1], answer.node)

\* C29 for the trees of which every node renders
C29_DotOfRenderedRoot ==
    answer.call = "render_to_dot_string"
    /\ get_parent(nodes, answer.node) = NoNode
    /\ (\A n \in TreeNodes(nodes, answer.node) : render(nodes, n) # Panicked) =>
        /\ answer.outcome = "Ok"
        /\ Graph(answer.returned[1], answer.node)

\* AND[ AND[ (-,1) ], (-,1) ], the ids 0 to 3: the labels of 0, 1, 2, 3 and
\* the edges 0 -> 1, 1 -> 2, 0 -> 3
C29_Witness ==
    /\ answer.call = "render_to_dot_string" /\ answer.node = 1
    /\ answer.outcome = "Ok"
    /\ nodes[1].children = <<2, 4>> /\ nodes[2].children = <<3>>
    /\ nodes[1].kind = "AndNode" /\ nodes[2].kind = "AndNode"
    /\ LeafOf(3, << None, Some(1) >>) /\ LeafOf(4, << None, Some(1) >>)
    /\ SelectSeq(Lines(answer.returned[1]), IsEdgeLine) =
          << <<"0", " ", "-", ">", " ", "1", ";">>,
             <<"1", " ", "-", ">", " ", "2", ";">>,
             <<"0", " ", "-", ">", " ", "3", ";">> >>
    /\ Lines(answer.returned[1])[5] =
          <<"0", " ", "[", "l", "a", "b", "e", "l", "=", "\"", "a", "\\", "n", "1", "\\", "n", "E", "=", "0", ",", " ", "K", "=", "1", "\"", " ", "s", "h", "a", "p", "e", "=", "t", "r", "a", "p", "e", "z", "i", "u", "m", "]">>

-----------------------------------------------------------------------------
(* The states of the parser: C30 *)

\* C30: the state of the parser changes only from DeterminingIndentationLevel
\* to InTitle, from InTitle to DeterminingNodeType on ';', from
\* DeterminingNodeType to SkipToLineEnd on '&' or '|' or to InAssessmentName
\* on another character that is not a space, from InAssessmentName to
\* InAssessmentValue on '=', from InAssessmentValue to InAssessmentName on
\* ',' or to DeterminingIndentationLevel on a newline, and from SkipToLineEnd
\* to DeterminingIndentationLevel on a newline.  A node is built only on
\* '&' or '|' in DeterminingNodeType, the state then becoming SkipToLineEnd
\* if the placement returns, and in InAssessmentValue on a newline or at the
\* end of the text.
C30_StateChangesAlongTheListedTransitions ==
    [][LET from == parser.state
           to == parser'.state
           c == line'.read
       IN  /\ to # from =>
                 \/ from = "DeterminingIndentationLevel" /\ to = "InTitle"
                 \/ from = "InTitle" /\ to = "DeterminingNodeType" /\ c = ";"
                 \/ from = "DeterminingNodeType" /\ to = "SkipToLineEnd"
                        /\ c \in {"&", "|"}
                 \/ from = "DeterminingNodeType" /\ to = "InAssessmentName"
                        /\ c \notin {"&", "|", " "}
                 \/ from = "InAssessmentName" /\ to = "InAssessmentValue" /\ c = "="
                 \/ from = "InAssessmentValue" /\ to = "InAssessmentName" /\ c = ","
                 \/ from = "InAssessmentValue" /\ to = "DeterminingIndentationLevel"
                        /\ c = "\n"
                 \/ from = "SkipToLineEnd" /\ to = "DeterminingIndentationLevel"
                        /\ c = "\n"
           /\ Len(nodes') > Len(nodes) =>
                 \/ /\ from = "DeterminingNodeType" /\ c \in {"&", "|"}
                    /\ result' = "none" => to = "SkipToLineEnd"
                 \/ /\ from = "InAssessmentValue" /\ c = "\n"
                    /\ result' = "none" => to = "DeterminingIndentationLevel"
                 \/ from = "InAssessmentValue" /\ c = "" /\ pc' = "done"]_vars

\* "a;|", then a leaf line " a;E=1," read up to its comma: all six states
\* have been passed through
C30_Witness ==
    /\ pc = "loop" /\ Len(nodes) = 1 /\ nodes[1].kind = "OrNode"
    /\ parser.state = "InAssessmentName" /\ line.read = ","
    /\ line.given = { <<"E">> } /\ line.indent = 1

-----------------------------------------------------------------------------
(* The bookkeeping of the parser: C31 to C37 *)

\* C31: while the leading spaces of a line are read the indentation counter
\* is their number, 0 at the start of every line; current_indentation and
\* previous_indentation change on the first character of a node line that
\* is neither a space nor a newline, and on no other, to the counter and to
\* the former current_indentation; when a node is built they are the leading
\* spaces of its line and of the node line before it (0 for the first node).
C31_IndentationsFollowTheLines ==
    /\ [](pc = "loop" /\ parser.state = "DeterminingIndentationLevel" =>
             parser.indentation_counter = lead)
    /\ [][/\ IF pc = "loop" /\ parser.state = "DeterminingIndentationLevel"
                /\ line'.read \notin {" ", "\n", ""}
             THEN /\ parser'.current_indentation = lead
                  /\ parser'.previous_indentation = parser.current_indentation
                  /\ parser'.state = "InTitle"
             ELSE /\ parser'.current_indentation = parser.current_indentation
                  /\ parser'.previous_indentation = parser.previous_indentation
          /\ Len(nodes') > Len(nodes) =>
                /\ parser'.current_indentation = indentOf'[NewNode]
                /\ parser'.previous_indentation =
                      IF NewNode = 1 THEN 0 ELSE indentOf[PreviousNode]]_vars

\* "a;|", a blank line, " a;E=1": the second node is built with the
\* indentations 1 and 0
C31_Witness ==
    /\ Len(nodes) = 2 /\ indentOf = <<0, 1>> /\ line.blankAfter = 1
    /\ parser.current_indentation = 1 /\ parser.previous_indentation = 0
    /\ nodes[2].kind = "Leaf"

\* The places of the children lists at which n stands
Occurrences(heap, n) ==
    { <<p, i>> \in (1..Len(heap)) \X (1..Len(heap)) :
          i <= Len(get_children(heap, p)) /\ get_children(heap, p)[i] = n }

\* C32: as long as parse() has not failed, and in the tree it returns, every
\* node built is reached from the first node through get_children and
\* stands at exactly one place of one children list, the first node at none.
C32_EveryNodeIsAttachedOnce ==
    result \in {"none", "Ok"} /\ nodes # <<>> =>
        /\ TreeNodes(nodes, 1) = 1..Len(nodes)
        /\ Occurrences(nodes, 1) = {}
        /\ \A n \in 2..Len(nodes) : Cardinality(Occurrences(nodes, n)) = 1

\* four lines, the last three under the first
C32_Witness ==
    /\ Returned /\ Len(nodes) = 4 /\ root = 1
    /\ get_children(nodes, 1) = <<2, 3, 4>>
    /\ Occurrences(nodes, 3) = { <<1, 2>> }

\* This step built the node of a line that belongs under a Leaf: a line
\* indented deeper than the leaf line before it, or a line after a first
\* line that is a leaf.
BuiltUnderLeaf ==
    /\ Len(nodes') > Len(nodes) /\ PreviousNode >= 1
    /\ \/ nodes[PreviousNode].kind = "Leaf" /\ Deeper
       \/ nodes[1].kind = "Leaf"

\* C33: a Leaf has no children at any time, and the step that builds a node
\* for a line that belongs under a Leaf ends parse() with a fault or an
\* error and without a tree.
C33_NothingIsPlacedUnderALeaf ==
    /\ [](\A n \in 1..Len(nodes) :
             nodes[n].kind = "Leaf" => get_children(nodes, n) = <<>>)
    /\ [][BuiltUnderLeaf =>
             /\ pc' = "done" /\ result' \in {"Panic", "SyntaxError"}
             /\ root' = NoNode]_vars

\* "a;|", " a;E=1,K=1", "  a;&": the third line is deeper than the leaf line
C33_Witness ==
    /\ pc = "done" /\ result = "Panic" /\ root = NoNode
    /\ Len(nodes) = 3 /\ indentOf = <<0, 1, 2>>
    /\ nodes[2].kind = "Leaf" /\ get_children(nodes, 2) = <<>>
    /\ nodes[3].kind = "AndNode"

-----------------------------------------------------------------------------
(* Leaf lines that give some of the criteria: C34 *)

MaxLeafNodes == 3
MaxLeafIndent == 1

\* SpecLeaves: the lines "a;|" and the leaf lines that give E, K or both, in
\* either order, each once, with the values 1 and 11.
LeafLang(c) ==
    CASE parser.state = "DeterminingIndentationLevel" ->
            \/ c = " " /\ parser.indentation_counter < MaxLeafIndent
            \/ c = "a" /\ Len(nodes) < MaxLeafNodes
      [] parser.state = "InTitle" -> c = ";"
      [] parser.state = "DeterminingNodeType" -> c \in {"|", "E", "K"}
      [] parser.state = "SkipToLineEnd" -> c = "\n"
      [] parser.state = "InAssessmentName" ->
            IF parser.assessment_title = <<>>
            THEN c \in {"E", "K"} /\ <<c>> \notin line.given
            ELSE c = "="
      [] parser.state = "InAssessmentValue" ->
            IF parser.assessment_value = <<>>
            THEN c = "1"
            ELSE \/ c = "\n"
                 \/ c = "," /\ line.given = {}
                 \/ c = "1" /\ Len(parser.assessment_value) < 2

NextLeafChars == { c \in Chars : LeafLang(c) }

NextLeaves ==
    \/ ReadToString
    \/ InTitle(NextLeafChars)
    \/ DeterminingNodeType(NextLeafChars)
    \/ SkipToLineEnd(NextLeafChars)
    \/ DeterminingIndentationLevel(NextLeafChars)
    \/ InAssessmentName(NextLeafChars)
    \/ InAssessmentValue(NextLeafChars)
    \/ EndOfText

SpecLeaves == Init /\ [][NextLeaves]_vars

\* The criterion names that the line of the leaf built in this step gives a
\* value: those of the pairs read before, and that of the pair the line ends
\* with.
GivenOnTheLine == line.given \cup {Trim(parser.assessment_title)}

\* C34: the vector of a leaf holds a value for the criteria that the leaf's
\* own line names and nothing for every other criterion of the schema.
C34_LeafVectorIsOfItsOwnLine ==
    [][LeafBuilt =>
          \A i \in 1..Len(definition) :
              (nodes'[NewNode].criteria.assessments[i] # None)
                 <=> definition[i] \in GivenOnTheLine]_vars

\* What holds instead: the vector holds a value for the criteria named on the
\* leaf's line or on any leaf line read before it by this parser.
C34_LeafVectorKeepsEarlierValues ==
    [][LeafBuilt =>
          \A i \in 1..Len(definition) :
              (nodes'[NewNode].criteria.assessments[i] # None)
                 <=> definition[i] \in
                        GivenOnTheLine \cup DOMAIN parser.parsed_assessments]_vars

\* "a;|", " a;E=1,K=1", " a;K=11" or " a;E=1,K=1", " a;E=1": one of the
\* values of the second leaf is the first leaf's.
C34_Witness ==
    /\ Returned /\ ~complete /\ Len(nodes) = 3
    /\ get_children(nodes, 1) = <<2, 3>>
    /\ nodes[2].kind = "Leaf" /\ nodes[3].kind = "Leaf"
    /\ nodes[2].criteria.assessments = << Some(1), Some(1) >>
    /\ nodes[3].criteria.assessments = << Some(1), Some(11) >>

-----------------------------------------------------------------------------
(* Lines and nodes: C35 *)

\* C35: a returned tree has one node for every line of the text that holds
\* more than spaces.
C35_OneNodePerLine ==
    Returned => Len(nodes) = line.lines

\* What holds instead, for the texts in which no title and no criterion name
\* runs over a line end: a last line that ends in its title, right after its
\* ';' or in a criterion name has no node; every other line has one.
C35_OneNodePerLineButTheLast ==
    Returned =>
        Len(nodes) = line.lines -
            (IF parser.state \in {"InTitle", "DeterminingNodeType", "InAssessmentName"}
             THEN 1 ELSE 0)

\* "a;|", " a;E": the second line ends before its '='
C35_Witness ==
    /\ Returned /\ parser.state = "InAssessmentName" /\ parser.assessment_title = <<"E">>
    /\ line.lines = 2 /\ Len(nodes) = 1 /\ root = 1 /\ get_children(nodes, 1) = <<>>

-----------------------------------------------------------------------------
(* The pointers after a placement: C36 *)

\* C36: in the loop over the characters, after the placement of the first
\* node current_node and last_added_node are that node; after every other
\* placement last_added_node is the node placed, and it is the last of the
\* children of the node that current_node refers to.
C36_PointersAfterPlacement ==
    [][Placed /\ pc' = "loop" =>
          IF nodes = <<>>
          THEN parser'.current_node = NewNode /\ parser'.last_added_node = NewNode
          ELSE LET children == get_children(nodes', parser'.current_node)
               IN  /\ parser'.last_added_node = NewNode
                   /\ children # <<>>
                   /\ children[Len(children)] = NewNode]_vars

\* "a;|", " a;&", "  a;|", " a;": the fourth node was placed after a step up
C36_Witness ==
    /\ pc = "loop" /\ Len(nodes) = 4 /\ indentOf = <<0, 1, 2, 1>>
    /\ parser.last_added_node = 4
    /\ get_children(nodes, parser.current_node)[Len(get_children(nodes, parser.current_node))] = 4

-----------------------------------------------------------------------------
(* Stored parents and the walk to the root: C37 *)

\* The iterations of the loop `while let Some(p) = current.get_parent()` that
\* starts at node n.
RECURSIVE WalkSteps(_, _)
WalkSteps(heap, n) ==
    IF heap[n].parent = NoNode THEN 0 ELSE 1 + WalkSteps(heap, heap[n].parent)

\* The first node stores no parent, every other node a node built before it.
ParentIsEarlier(heap, n) ==
    IF n = 1 THEN heap[n].parent = NoNode ELSE heap[n].parent \in 1..(n - 1)

\* C37: the first node stores no parent and every other node stores a node
\* built before it, which has a smaller id; the walk from any node to the
\* root takes at most as many steps as there are nodes.
C37_ParentsAreEarlierAndHaveSmallerIds ==
    \A n \in 1..Len(nodes) :
        /\ ParentIsEarlier(nodes, n)
        /\ n > 1 => IdLess(nodes[nodes[n].parent].id, nodes[n].id)
        /\ WalkSteps(nodes, n) <= Len(nodes)

\* What holds instead: the same without the order of the ids.
C37_ParentsAreEarlier ==
    \A n \in 1..Len(nodes) :
        /\ ParentIsEarlier(nodes, n)
        /\ WalkSteps(nodes, n) <= Len(nodes)

\* "a;|", " a;|", " a;|" with the counter at 2^32 - 1: the third node stores
\* the first, whose id is the greatest u32
C37_Witness ==
    /\ Returned /\ Len(nodes) = 3 /\ root = 1
    /\ nodes[3].parent = 1 /\ WalkSteps(nodes, 3) = 1
    /\ nodes[1].id = <<Half - 1, Half - 1>> /\ nodes[3].id = <<0, 1>>

-----------------------------------------------------------------------------
(* A second parse() on the same parser: C38 *)

MaxAgainNodes == 2
MaxAgainIndent == 1

\* One iteration of the loop over the characters: the match on self.state.
on_char(w, c) ==
    CASE w.parser.state = "InTitle" -> on_InTitle(w, c)
      [] w.parser.state = "DeterminingNodeType" -> on_DeterminingNodeType(w, c)
      [] w.parser.state = "SkipToLineEnd" -> on_SkipToLineEnd(w, c)
      [] w.parser.state = "DeterminingIndentationLevel" ->
            on_DeterminingIndentationLevel(w, c)
      [] w.parser.state = "InAssessmentName" -> on_InAssessmentName(w, c)
      [] w.parser.state = "InAssessmentValue" -> on_InAssessmentValue(w, c)

\* parse() of a text that was read, as one call.
RECURSIVE parse(_, _)
parse(w, text) ==
    IF w.exit # "none" THEN w
    ELSE IF text = <<>> THEN on_EndOfText(w)
    ELSE parse(on_char(w, Head(text)), Tail(text))

\* The texts of the second call: "a;|", "a;E=1,K=1" with a line end,
\* "a;|" with one leaf line under it, and with two.
OrLine == <<"a", ";", "|">>
LeafLine == <<"a", ";", "E", "=", "1", ",", "K", "=", "1">>
LeafUnder == <<"\n", " ">> \o LeafLine
SecondTexts ==
    { OrLine, LeafLine \o <<"\n">>, OrLine \o LeafUnder,
      OrLine \o LeafUnder \o LeafUnder }

\* The first call has returned a tree; the same parser is given a second
\* stream.
ParseAgain ==
    /\ pc = "done" /\ result = "Ok" /\ answer.call = "none"
    /\ \/ /\ answer' = [call |-> "parse", read |-> FALSE, text |-> <<>>,
                        root |-> root, nodes |-> nodes]
          /\ result' = "FileReadError"
          /\ root' = NoNode
          /\ UNCHANGED <<parser, nodes, OBJECT_COUNTER>>
       \/ \E text \in SecondTexts :
             LET w == parse(World, text)
             IN  /\ answer' = [call |-> "parse", read |-> TRUE, text |-> text,
                               root |-> root, nodes |-> nodes]
                 /\ parser' = w.parser
                 /\ nodes' = w.nodes
                 /\ OBJECT_COUNTER' = w.counter
                 /\ result' = w.exit
                 /\ root' = IF w.exit = "Ok" THEN w.parser.current_node ELSE NoNode
    /\ pc' = "again"
    /\ UNCHANGED <<lead, line, indentOf, complete, args>>

NextAgainChars == { c \in Chars : PlainLang(c, MaxAgainNodes, MaxAgainIndent) }

NextAgain ==
    \/ ReadToString
    \/ InTitle(NextAgainChars)
    \/ DeterminingNodeType(NextAgainChars)
    \/ SkipToLineEnd(NextAgainChars)
    \/ DeterminingIndentationLevel(NextAgainChars)
    \/ InAssessmentName(NextAgainChars)
    \/ InAssessmentValue(NextAgainChars)
    \/ EndOfText
    \/ ParseAgain

SpecAgain == Init /\ [][NextAgain]_vars

\* Kind, title, feasibility and children of a node, and so of its children.
RECURSIVE Shape(_, _)
Shape(heap, n) ==
    [kind |-> heap[n].kind,
     title |-> heap[n].description,
     feasibility |-> feasibility(heap, n),
     children |-> [i \in 1..Len(get_children(heap, n)) |->
                      Shape(heap, get_children(heap, n)[i])]]

\* What parse() of the text gives with a parser from AttackTreeParser::new
\* (the ids it draws are not compared).
Fresh(text) ==
    parse([parser |-> AttackTreeParser_new, nodes |-> <<>>,
           counter |-> OBJECT_COUNTER, exit |-> "none"], text)

\* C38: the second parse() of a parser ends as the parse() of the same text
\* by a fresh parser ends, with a tree of the same shape, titles and
\* feasibilities, and the tree that the first call returned is as it was.
C38_SecondParseIsLikeAFreshOne ==
    pc = "again" /\ answer.read =>
        /\ result = Fresh(answer.text).exit
        /\ result = "Ok" =>
              Shape(nodes, root) =
                 Shape(Fresh(answer.text).nodes,
                       Fresh(answer.text).parser.current_node)
        /\ Shape(nodes, answer.root) = Shape(answer.nodes, answer.root)

\* What holds instead: a second parse() that returns a tree returns the root
\* of the first call's tree, and the nodes of the first call keep their
\* kinds, titles, ids and parents.
C38_SecondParseReturnsTheFirstRoot ==
    pc = "again" =>
        /\ result = "Ok" => root = answer.root
        /\ \A n \in 1..Len(answer.nodes) :
              [nodes[n] EXCEPT !.children = <<>>] =
                 [answer.nodes[n] EXCEPT !.children = <<>>]

\* "a;|" with a line end, then "a;|" and a leaf line under it: the first
\* node of the second text is a child of the first root
C38_Witness ==
    /\ pc = "again" /\ result = "Ok" /\ root = 1 /\ answer.root = 1
    /\ Len(answer.nodes) = 1 /\ get_children(answer.nodes, 1) = <<>>
    /\ answer.text = OrLine \o LeafUnder
    /\ get_children(nodes, 1) = <<2>> /\ get_children(nodes, 2) = <<3>>
    /\ nodes[2].parent = 1

-----------------------------------------------------------------------------
(* generate_id called from several threads: C39 *)

MaxThreads == 2
MaxCalls == 2

Threads == 1..MaxThreads

\* SpecThreads: every thread calls generate_id up to MaxCalls times.  answer
\* holds the value of the counter at the start, per thread the value that its
\* fetch_add has read and that its call has not returned yet, and per thread
\* the ids that its calls have returned, in the order of the calls.
InitThreads ==
    /\ pc = "threads"
    /\ parser = AttackTreeParser_new
    /\ nodes = <<>>
    /\ OBJECT_COUNTER \in IssuedBefore
    /\ result = "none"
    /\ root = NoNode
    /\ lead = 0
    /\ line = [indent |-> 0, given |-> {}, blankAfter |-> -1, read |-> "", lines |-> 0]
    /\ indentOf = <<>>
    /\ complete = TRUE
    /\ answer = [call |-> "generate_id", first |-> OBJECT_COUNTER,
                 read |-> [t \in Threads |-> None],
                 ids |-> [t \in Threads |-> <<>>]]
    /\ args = <<>>

\* OBJECT_COUNTER.fetch_add(1, SeqCst) of thread t: one atomic step
FetchAdd(t) ==
    /\ pc = "threads"
    /\ answer.read[t] = None /\ Len(answer.ids[t]) < MaxCalls
    /\ answer' = [answer EXCEPT !.read[t] = Some(OBJECT_COUNTER)]
    /\ OBJECT_COUNTER' = fetch_add(OBJECT_COUNTER)
    /\ UNCHANGED <<pc, parser, nodes, result, root, lead, line, indentOf,
                   complete, args>>

\* `as u32` and the return of generate_id in thread t
ReturnId(t) ==
    /\ pc = "threads"
    /\ answer.read[t] # None
    /\ answer' = [answer EXCEPT !.read[t] = None,
                                !.ids[t] = Append(@, generate_id(answer.read[t][1]))]
    /\ UNCHANGED <<pc, parser, nodes, OBJECT_COUNTER, result, root, lead, line,
                   indentOf, complete, args>>

NextThreads ==
    \/ \E t \in Threads : FetchAdd(t)
    \/ \E t \in Threads : ReturnId(t)

SpecThreads == InitThreads /\ [][NextThreads]_vars

\* The ids returned so far, as <<thread, number of the call>>.
Returns == { <<t, i>> \in Threads \X (1..MaxCalls) : i <= Len(answer.ids[t]) }

\* No more than 2^32 ids have been issued: every call so far was made when
\* fewer than 2^32 had been.
WithinU32 == OBJECT_COUNTER[1] < Half \/ OBJECT_COUNTER = <<Half, 0>>

\* C39: while fewer than 2^32 ids have been issued, no two calls of
\* generate_id return the same value, whatever thread they are in, no call
\* returns a value that was issued before, and in every thread each call
\* returns a greater value than the call before it.
C39_IdsAreDistinctAndIncreaseInAThread ==
    pc = "threads" /\ WithinU32 =>
        /\ \A a \in Returns : \A b \in Returns :
              a # b => answer.ids[a[1]][a[2]] # answer.ids[b[1]][b[2]]
        /\ \A a \in Returns : ~IdLess(answer.ids[a[1]][a[2]], answer.first)
        /\ \A a \in Returns :
              a[2] > 1 => IdLess(answer.ids[a[1]][a[2] - 1], answer.ids[a[1]][a[2]])

\* Two threads, two calls each, the eighth to the eleventh id of the process;
\* the calls of the second thread lie between those of the first.
C39_Witness ==
    /\ pc = "threads" /\ answer.first = <<0, 7>> /\ OBJECT_COUNTER = <<0, 11>>
    /\ answer.ids[1] = << <<0, 7>>, <<0, 10>> >>
    /\ answer.ids[2] = << <<0, 8>>, <<0, 9>> >>

====
